---- MODULE Spec2Model ----
(***************************************************************************)
(* Chunked PDF storage of ProjectViewer.tsx: upload (handleAddPdf), read   *)
(* (selectPdf) and delete (handleDeleteSelectedPdf) against the Firestore  *)
(* collections projects/{p}/pdfs, .../chunks and .../annotations.          *)
(* The annotation set of PdfEditor (load, mutations, persistHighlights),   *)
(* the calls of lib/ai.ts (suggestComment, askExpert, suggestNextFocus)    *)
(* and handleCreate of CreateProjectDialog.tsx are modelled too.           *)
(*                                                                         *)
(* Every handler is an async function; it is modelled as a process that    *)
(* takes one step per await.  A store call is issued in one step and       *)
(* settles (resolves or rejects) in a later one, so that other handlers    *)
(* interleave exactly where the JavaScript event loop lets them.           *)
(***************************************************************************)
EXTENDS Integers, Sequences, FiniteSets, TLC

\* ------------------------------------------------------------------ bounds
\* longest uploaded file, in bytes
MaxBytes == 3
\* largest chunk size tried (the code fixes CHUNK_SIZE = 500000; the model
\* runs the same code for every chunk size 1..MaxChunkSize)
MaxChunkSize == 3
\* number of documents addDoc creates in one behaviour
MaxDocs == 1
\* number of documents the project holds when the page is opened on a
\* project that was filled before
MaxStored == 2

\* mutations of the annotation set made in one behaviour
MaxEdits == 3
\* page reloads in one behaviour
MaxReloads == 1
\* the longest pdfText and highlightText
MaxText == 4
\* the prefixes of pdfText and highlightText that suggestComment keeps:
\* 160_000 and 4_000 characters in the source, scaled down
ContextLimit == 3
ExcerptLimit == 2
\* the prefixes of pdfText that askExpert and suggestNextFocus keep: 120_000
\* and 140_000 characters in the source, scaled down
ExpertContextLimit == 3
FocusContextLimit == 3
\* the turns of the history askExpert keeps, and the result lines of the web
\* lookup it keeps
HistoryTurns == 10
MaxResults == 5
\* the longest question, in tokens, and the longest history, in turns
MaxQuestion == 3
MaxHistory == 11
\* the cap on the size of a cover image: 700 * 1024 bytes in the source,
\* scaled down
maxBytes == 2
\* the largest cover image, and the calls of handleCreate
MaxCover == 3
MaxCreates == 2

\* byte values the uploaded files are made of
ByteVals == {0, 255}
\* the slots of handler invocations that may be in flight at once
Gets == {"g1", "g2"}
OneGet == {"g1"}
Dels == {"d1", "d2"}

\* ------------------------------------------------------------ base64 codec
\* A base64 character is its 6-bit value 0..63; Pad is '='.
Pad == 64

RECURSIVE btoa(_)
\* window.btoa: 3 bytes -> 4 characters, '=' padding on the last group
btoa(b) ==
  IF Len(b) = 0 THEN << >>
  ELSE IF Len(b) = 1 THEN
    << b[1] \div 4, (b[1] % 4) * 16, Pad, Pad >>
  ELSE IF Len(b) = 2 THEN
    << b[1] \div 4, (b[1] % 4) * 16 + (b[2] \div 16), (b[2] % 16) * 4, Pad >>
  ELSE
    << b[1] \div 4, (b[1] % 4) * 16 + (b[2] \div 16),
       (b[2] % 16) * 4 + (b[3] \div 64), b[3] % 64 >>
      \o btoa(SubSeq(b, 4, Len(b)))

\* forgiving-base64: a string whose length is a multiple of 4 loses one or
\* two trailing '='
StripPadding(s) ==
  IF Len(s) > 0 /\ Len(s) % 4 = 0 /\ s[Len(s)] = Pad
  THEN IF s[Len(s) - 1] = Pad THEN SubSeq(s, 1, Len(s) - 2)
       ELSE SubSeq(s, 1, Len(s) - 1)
  ELSE s

\* atob throws InvalidCharacterError on these
AtobThrows(s) ==
  LET t == StripPadding(s) IN
    \/ Len(t) % 4 = 1
    \/ \E i \in 1..Len(t) : t[i] = Pad

RECURSIVE DecodeGroups(_)
DecodeGroups(t) ==
  IF Len(t) < 2 THEN << >>
  ELSE IF Len(t) = 2 THEN << t[1] * 4 + (t[2] \div 16) >>
  ELSE IF Len(t) = 3 THEN
    << t[1] * 4 + (t[2] \div 16), (t[2] % 16) * 16 + (t[3] \div 4) >>
  ELSE
    << t[1] * 4 + (t[2] \div 16), (t[2] % 16) * 16 + (t[3] \div 4),
       (t[3] % 4) * 64 + t[4] >>
      \o DecodeGroups(SubSeq(t, 5, Len(t)))

\* window.atob followed by the charCodeAt loop: the decoded bytes
atob(s) == DecodeGroups(StripPadding(s))

\* ------------------------------------------------------------- sequences
RECURSIVE Join(_)
\* parts.join("")
Join(parts) ==
  IF Len(parts) = 0 THEN << >> ELSE Head(parts) \o Join(Tail(parts))

RECURSIVE SeqsUpTo(_)
SeqsUpTo(n) ==
  IF n = 0 THEN { << >> }
  ELSE LET S == SeqsUpTo(n - 1) IN
         S \cup { Append(s, v) : s \in { x \in S : Len(x) = n - 1 }, v \in ByteVals }

\* the files the user can pick
Files == SeqsUpTo(MaxBytes)

\* an empty file and one of the longest
SampleFiles == { << >>, [j \in 1..MaxBytes |-> IF j % 2 = 1 THEN 0 ELSE 255] }

InsertAt(s, pos, e) ==
  SubSeq(s, 1, pos - 1) \o << e >> \o SubSeq(s, pos, Len(s))

\* Math.ceil(a / b) for a >= 0, b >= 1
Ceil(a, b) == (a + b - 1) \div b

Min(a, b) == IF a <= b THEN a ELSE b

\* ------------------------------------------------------------------ state
VARIABLES
  \* const CHUNK_SIZE of handleAddPdf, fixed for the whole behaviour
  CHUNK_SIZE,
  \* Firestore: projects/{p}/pdfs/{id}, its chunks sub-collection (in the
  \* store's own, unspecified, order) and its annotations/default record
  pdfDocs, chunkDocs, annotationDocs,
  \* ids handed out by addDoc so far
  nextDocId,
  \* React state of ProjectViewer
  pdfs, selectedPdfId, selectedPdfUrl, error, loading,
  \* handleAddPdf in flight
  putPc, putFile, putDocId, putInflight, putWritten, putLog, putResult,
  \* selectPdf invocations in flight (from the sidebar)
  getPc, getItem,
  \* handleDeleteSelectedPdf invocations in flight
  delPc, delDocId, delPending, delFaults, delResult,
  \* observation: the bytes uploaded as each document, the documents whose
  \* upload has written its last chunk, and the documents a delete was
  \* started on
  uploaded, putComplete, delBegun

storeVars == << pdfDocs, chunkDocs, annotationDocs, nextDocId >>
uiVars == << pdfs, selectedPdfId, selectedPdfUrl, error, loading >>
putVars == << putPc, putFile, putDocId, putInflight, putWritten, putLog, putResult >>
getVars == << getPc, getItem >>
delVars == << delPc, delDocId, delPending, delFaults, delResult >>
obsVars == << uploaded, putComplete, delBegun >>
VARIABLES
  \* Firestore: the highlights field of annotations/default of each document
  \* (NoField while the record does not exist or has no such field)
  annotationData,
  \* ProjectViewer's mount effect load(): "idle" or "listing"; the number of
  \* times the page was reloaded
  viewLoadPc, reloads,
  \* PdfEditor: the pdfId its effects last ran for (NoId: not mounted), its
  \* React state highlights / isLoading / error
  edPdfId, highlights, isLoading, edError,
  \* the getDoc calls of the load effect in flight, the setDoc calls of
  \* persistHighlights in flight (in the order they were issued), and the
  \* number of mutations made so far
  edLoads, persists, edits,
  \* observation: the persists settled so far, and how the last load settled
  persistLog, loadLog

VARIABLES
  \* suggestComment invocations: where each is, whether its AbortSignal is
  \* aborted, the provider calls it has made, how its primary and its fallback
  \* call settled, and what it returned
  aiPc, aiAborted, aiCalls, aiPrimary, aiSecondary, aiResult,
  \* aiAbortRef.current: the invocation holding the current AbortController
  aiAbortRef,
  \* params.pdfText and params.highlightText of each invocation
  aiInput

VARIABLES
  \* the askExpert invocation: where it is, its parameters, how the web lookup
  \* and the two provider calls settled, the requests it has sent, and what it
  \* returned
  askPc, askInput, askLookup, askCalls, askPrimary, askSecondary, askResult

VARIABLES
  \* the suggestNextFocus invocation: where it is, the requests it has sent,
  \* how its provider call settled, and what it returned
  focusPc, focusInput, focusCalls, focusPrimary, focusResult,
  \* whether the build carries VITE_OPENAI_API_KEY
  envKey

VARIABLES
  \* the records of the collection "projects"
  projects,
  \* isFirebaseConfigured && db
  configured,
  \* CreateProjectCard: its state (error is createError here), where
  \* handleCreate is, the name and the cover file it was called with, and how
  \* often it was called
  open, name, coverFile, submitting, createError, createPc, createArgs, creates

edVars == << annotationData, viewLoadPc, reloads, edPdfId, highlights, isLoading,
             edError, edLoads, persists, edits, persistLog, loadLog >>
aiVars == << aiPc, aiAborted, aiCalls, aiPrimary, aiSecondary, aiResult, aiAbortRef,
            aiInput >>
askVars == << askPc, askInput, askLookup, askCalls, askPrimary, askSecondary, askResult >>
focusVars == << focusPc, focusInput, focusCalls, focusPrimary, focusResult >>
createVars == << projects, configured, open, name, coverFile, submitting, createError,
                createPc, createArgs, creates >>
otherVars == << askVars, focusVars, envKey, createVars >>
vars == << CHUNK_SIZE, storeVars, uiVars, putVars, getVars, delVars, obsVars,
           edVars, aiVars, otherVars >>
\* everything but the state of the calls of lib/ai.ts
pageVars == << CHUNK_SIZE, storeVars, uiVars, putVars, getVars, delVars, obsVars,
               edVars, envKey, createVars >>
\* everything but the state of CreateProjectCard and the projects
viewerVars == << CHUNK_SIZE, storeVars, uiVars, putVars, getVars, delVars, obsVars,
                 edVars, aiVars, askVars, focusVars, envKey >>

\* the ids of the pdf records: those addDoc creates, or those already there
LastDocId == IF MaxStored > MaxDocs THEN MaxStored ELSE MaxDocs
DocIds == 1..LastDocId
\* selectedPdfId === null
NoId == 0
\* selectedPdfUrl === null; otherwise << bytes of the Blob >>
NoUrl == << >>
NoError == "null"
NoDoc == [present |-> FALSE, numChunks |-> 0, size |-> 0]
NoItem == [id |-> NoId, numChunks |-> 0]
\* the targets of a delete besides the chunk ids 0, 1, ..: the annotations
\* record, the pdf record, and the listing of the chunks
Annotations == << "annotations", 0 >>
Meta == << "pdf", 0 >>
Listing == << "getDocs", 0 >>
ChunkTarget(id) == << "chunk", id >>

\* the highlights field is absent
NoField == [present |-> FALSE, highlights |-> << >>]
\* no load has settled yet
NoLoad == [doc |-> NoId, ok |-> TRUE, found |-> FALSE]
\* the slots of suggestComment invocations that may be in flight at once
Calls == { "s1", "s2" }
NoCall == "none"
\* a JavaScript value that is undefined, null, a string (the sequence of its
\* characters), or an object {value: string}
Undefined == [kind |-> "undefined", s |-> << >>]
Null == [kind |-> "null", s |-> << >>]
Str(t) == [kind |-> "string", s |-> t]
Wrapper(t) == [kind |-> "object", s |-> t]
\* a response without any of the fields the extractor reads
NoArray == [kind |-> "undefined", items |-> << >>]
Bare == [output_text |-> Undefined, output |-> NoArray, outputs |-> NoArray,
         choice |-> Undefined]
\* the provider call has not settled
NoOutcome == [threw |-> FALSE, resp |-> Bare]
NoSuggestion == [text |-> << >>, severity |-> "", category |-> ""]
\* a text of n characters, each character its position
Text(n) == [i \in 1..n |-> ToString(i)]
\* no parameters: the invocation has not started
SuggestInput(apiKey, pdfText, highlightText) ==
  [apiKey |-> apiKey, pdfText |-> pdfText, highlightText |-> highlightText]
NoInput == SuggestInput(FALSE, << >>, << >>)
\* the promise of suggestComment is pending
NoResult == [kind |-> "pending", value |-> NoSuggestion, from |-> "none"]

\* no editor is mounted and the project has no annotation record
InitEditor ==
  /\ annotationData = [d \in DocIds |-> NoField]
  /\ viewLoadPc = "idle"
  /\ reloads = 0
  /\ edPdfId = NoId
  /\ highlights = << >>
  /\ isLoading = FALSE
  /\ edError = NoError
  /\ edLoads = {}
  /\ persists = << >>
  /\ edits = 0
  /\ persistLog = << >>
  /\ loadLog = NoLoad

\* no suggestion was asked for
InitSuggest ==
  /\ aiPc = [c \in Calls |-> "idle"]
  /\ aiAborted = [c \in Calls |-> FALSE]
  /\ aiCalls = [c \in Calls |-> << >>]
  /\ aiPrimary = [c \in Calls |-> NoOutcome]
  /\ aiSecondary = [c \in Calls |-> NoOutcome]
  /\ aiResult = [c \in Calls |-> NoResult]
  /\ aiAbortRef = NoCall
  /\ aiInput = [c \in Calls |-> NoInput]

\* the state after ProjectViewer has mounted on an empty project, for the
\* chunk sizes in `sizes`
InitWith(sizes) ==
  /\ CHUNK_SIZE \in sizes
  /\ pdfDocs = [d \in DocIds |-> NoDoc]
  /\ chunkDocs = [d \in DocIds |-> << >>]
  /\ annotationDocs = [d \in DocIds |-> FALSE]
  /\ nextDocId = 1
  /\ pdfs = << >>
  /\ selectedPdfId = NoId
  /\ selectedPdfUrl = NoUrl
  /\ error = NoError
  /\ loading = FALSE
  /\ putPc = "idle"
  /\ putFile = << >>
  /\ putDocId = NoId
  /\ putInflight = {}
  /\ putWritten = {}
  /\ putLog = << >>
  /\ putResult = "none"
  /\ getPc = [g \in Gets |-> "idle"]
  /\ getItem = [g \in Gets |-> NoItem]
  /\ delPc = [p \in Dels |-> "idle"]
  /\ delDocId = [p \in Dels |-> NoId]
  /\ delPending = [p \in Dels |-> {}]
  /\ delFaults = [p \in Dels |-> {}]
  /\ delResult = [p \in Dels |-> "none"]
  /\ uploaded = [d \in DocIds |-> << >>]
  /\ putComplete = {}
  /\ delBegun = {}
  /\ InitEditor
  /\ InitSuggest

\* ---------------------------------------------------------------- selectPdf
\* faulty variant of SortByIndex: the query has no orderBy
StoreOrder(docs) == docs

RECURSIVE SortByIndex(_)
\* orderBy("index", "asc"): insertion sort of the collection on the index field
SortByIndex(docs) ==
  IF Len(docs) = 0 THEN << >>
  ELSE LET rest == SortByIndex(Tail(docs))
           h == Head(docs)
           k == Cardinality({ j \in 1..Len(rest) : rest[j].index < h.index })
       IN InsertAt(rest, k + 1, h)

\* getDocs(query(collection(.., id, "chunks"), orderBy("index", "asc")))
ListChunks(d) == SortByIndex(chunkDocs[d])

\* chunksSnap.forEach: if (data?.data) parts.push(data.data)
PartsOf(listing) ==
  LET kept == SelectSeq(listing, LAMBDA r : Len(r.data) > 0)
  IN [j \in 1..Len(kept) |-> kept[j].data]

IndicesOf(docs) == [j \in 1..Len(docs) |-> docs[j].index]

\* what selectPdf does once getDocs has settled: "storeError" when it rejected,
\* "nothing" for an empty listing, "decodeError" when atob throws, else "bytes"
SelectOutcome(ok, listing) ==
  IF ~ok THEN "storeError"
  ELSE IF Len(PartsOf(listing)) = 0 THEN "nothing"
  ELSE IF AtobThrows(Join(PartsOf(listing))) THEN "decodeError"
  ELSE "bytes"

SelectBytes(listing) == atob(Join(PartsOf(listing)))

\* the state updates of selectPdf after its await (lines 65-88)
SelectFinish(item, ok) ==
  LET listing == ListChunks(item.id)
      outcome == SelectOutcome(ok, listing)
  IN /\ selectedPdfUrl' =
          CASE outcome = "bytes" -> << SelectBytes(listing) >>
            [] outcome = "nothing" -> NoUrl
            [] OTHER -> selectedPdfUrl
     /\ error' =
          CASE outcome = "storeError" -> "Failed to load PDF"
            [] outcome = "decodeError" -> "InvalidCharacterError"
            [] OTHER -> error

\* a click on a sidebar entry: lines 59-64, up to the await
SelectStart(g, k) ==
  /\ getPc[g] = "idle"
  /\ k \in 1..Len(pdfs)
  /\ getPc' = [getPc EXCEPT ![g] = "listing"]
  /\ getItem' = [getItem EXCEPT ![g] = pdfs[k]]
  /\ selectedPdfId' = pdfs[k].id
  /\ error' = NoError
  /\ UNCHANGED << CHUNK_SIZE, otherVars, edVars, aiVars, storeVars, pdfs, selectedPdfUrl, loading, putVars,
                  delVars, obsVars >>

\* getDocs settles and selectPdf runs to its end
SelectSettle(g, ok) ==
  /\ getPc[g] = "listing"
  /\ SelectFinish(getItem[g], ok)
  /\ getPc' = [getPc EXCEPT ![g] = "idle"]
  /\ getItem' = [getItem EXCEPT ![g] = NoItem]
  /\ UNCHANGED << CHUNK_SIZE, otherVars, edVars, aiVars, storeVars, pdfs, selectedPdfId, loading, putVars,
                  delVars, obsVars >>

\* ------------------------------------------------------------- handleAddPdf
\* const base64 = btoa(binary)
Base64Of(file) == btoa(file)

\* faulty variant of NumChunksOf: Math.floor in place of Math.ceil
NumChunksFloor(base64) == Len(base64) \div CHUNK_SIZE

\* Math.ceil(base64.length / CHUNK_SIZE)
NumChunksOf(base64) == Ceil(Len(base64), CHUNK_SIZE)

\* faulty variant of ChunkOf: the slice loses its last character
ChunkOfShort(base64, i) ==
  SubSeq(base64, i * CHUNK_SIZE + 1, Min(Len(base64), i * CHUNK_SIZE + CHUNK_SIZE) - 1)

\* faulty variant of ChunkOf: the slice runs one character into the next chunk
ChunkOfOverlong(base64, i) ==
  SubSeq(base64, i * CHUNK_SIZE + 1, Min(Len(base64), i * CHUNK_SIZE + CHUNK_SIZE + 1))

\* base64.slice(i * CHUNK_SIZE, Math.min(base64.length, i * CHUNK_SIZE + CHUNK_SIZE))
ChunkOf(base64, i) ==
  SubSeq(base64, i * CHUNK_SIZE + 1, Min(Len(base64), i * CHUNK_SIZE + CHUNK_SIZE))

\* faulty variant of ChunksToIssue: the writes are not awaited one by one, all are
\* issued together
ChunksToIssueAll(settled, n) == IF settled = 0 THEN 0..(n - 1) ELSE {}

\* faulty variant of ChunksToIssue: the loop stops one chunk early
ChunksToIssueButLast(settled, n) == IF settled < n - 1 THEN { settled } ELSE {}

\* the for loop with its await: the chunk writes issued once `settled` chunk
\* writes have resolved, out of n
ChunksToIssue(settled, n) == IF settled < n THEN { settled } ELSE {}

\* setDoc(doc(.., "chunks", chunkId), {index, data}): the record replaces the
\* one with the same id, or is added somewhere in the store's own order
StoreChunk(col, rec, pos) ==
  LET others == SelectSeq(col, LAMBDA r : r.id # rec.id)
  IN InsertAt(others, Min(pos, Len(others) + 1), rec)

\* lines 166-168 up to selectPdf's await: the list entry and the selection
PutShowsNewItem(id) ==
  /\ pdfs' = << [id |-> id, numChunks |-> NumChunksOf(Base64Of(putFile))] >> \o pdfs
  /\ selectedPdfId' = id
  /\ error' = NoError

\* the file input's change event: lines 120-135
PutStart(file, isPdf) ==
  /\ putPc = "idle"
  /\ nextDocId <= MaxDocs
  /\ IF ~isPdf
     THEN /\ error' = "Please select a PDF file"
          /\ UNCHANGED << loading, putVars >>
     ELSE /\ error' = NoError
          /\ loading' = TRUE
          /\ putPc' = "read"
          /\ putFile' = file
          /\ putDocId' = NoId
          /\ putInflight' = {}
          /\ putWritten' = {}
          /\ putLog' = << >>
          /\ putResult' = "none"
  /\ UNCHANGED << CHUNK_SIZE, otherVars, edVars, aiVars, storeVars, pdfs, selectedPdfId, selectedPdfUrl,
                  getVars, delVars, obsVars >>

\* file.arrayBuffer() resolved: the encoding, then addDoc is issued (136-146)
PutRead ==
  /\ putPc = "read"
  /\ putPc' = "addDoc"
  /\ UNCHANGED << CHUNK_SIZE, otherVars, edVars, aiVars, storeVars, uiVars, putFile, putDocId, putInflight,
                  putWritten, putLog, putResult, getVars, delVars, obsVars >>

\* faulty variant of UploadErrorMessage: the catch block swallows the failure
UploadErrorSwallowed == "null"

\* what the catch block hands to setError (line 171)
UploadErrorMessage == "Failed to upload PDF"

\* the catch and finally blocks: lines 170-174
PutFails ==
  /\ error' = UploadErrorMessage
  /\ loading' = FALSE
  /\ putPc' = "idle"
  /\ putResult' = "error"

\* the loop has no more writes in flight and none to issue: the handler goes
\* on to lines 166-168
PutAfterLoop(id, inflight) ==
  IF inflight = {}
  THEN /\ PutShowsNewItem(id)
       /\ putPc' = "select"
       /\ putComplete' = putComplete \cup {id}
  ELSE /\ putPc' = "chunks"
       /\ UNCHANGED << pdfs, selectedPdfId, error, putComplete >>

\* addDoc settles; on success the loop issues its first write, or with no
\* chunk to write the handler goes on to selectPdf
PutAddDocSettle(ok) ==
  /\ putPc = "addDoc"
  /\ IF ~ok
     THEN /\ PutFails
          /\ putLog' = Append(putLog, [op |-> "addDoc", index |-> 0, ok |-> FALSE])
          /\ UNCHANGED << storeVars, pdfs, selectedPdfId, putDocId, putInflight,
                          putWritten, obsVars >>
     ELSE LET n == NumChunksOf(Base64Of(putFile)) IN
          /\ putDocId' = nextDocId
          /\ nextDocId' = nextDocId + 1
          /\ pdfDocs' = [pdfDocs EXCEPT ![nextDocId] =
                           [present |-> TRUE, numChunks |-> n, size |-> Len(putFile)]]
          /\ uploaded' = [uploaded EXCEPT ![nextDocId] = putFile]
          /\ putLog' = Append(putLog, [op |-> "addDoc", index |-> 0, ok |-> TRUE])
          /\ putInflight' = ChunksToIssue(0, n)
          /\ PutAfterLoop(nextDocId, putInflight')
          /\ UNCHANGED << chunkDocs, annotationDocs, loading, putWritten, putResult,
                          delBegun >>
  /\ UNCHANGED << CHUNK_SIZE, otherVars, edVars, aiVars, selectedPdfUrl, putFile, getVars, delVars >>

\* the setDoc of chunk i settles; on success the loop issues the next write, or
\* after the last one the handler goes on to selectPdf
PutChunkSettle(i, ok, pos) ==
  /\ putPc = "chunks"
  /\ i \in putInflight
  /\ IF ~ok
     THEN /\ PutFails
          /\ putLog' = Append(putLog, [op |-> "setDoc", index |-> i, ok |-> FALSE])
          /\ putInflight' = putInflight \ {i}
          /\ UNCHANGED << storeVars, pdfs, selectedPdfId, putWritten, obsVars >>
     ELSE LET base64 == Base64Of(putFile)
              n == NumChunksOf(base64)
          IN
          /\ chunkDocs' = [chunkDocs EXCEPT ![putDocId] =
                             StoreChunk(@, [id |-> i, index |-> i, data |-> ChunkOf(base64, i)], pos)]
          /\ putWritten' = putWritten \cup {i}
          /\ putLog' = Append(putLog, [op |-> "setDoc", index |-> i, ok |-> TRUE])
          /\ putInflight' = (putInflight \ {i})
                              \cup (ChunksToIssue(Cardinality(putWritten'), n) \ putWritten')
          /\ PutAfterLoop(putDocId, putInflight')
          /\ UNCHANGED << pdfDocs, annotationDocs, nextDocId, loading, putResult,
                          uploaded, delBegun >>
  /\ UNCHANGED << CHUNK_SIZE, otherVars, edVars, aiVars, selectedPdfUrl, putFile, putDocId, getVars, delVars >>

\* the awaited selectPdf(newItem) settles and the handler ends (168-174)
PutSelectSettle(ok) ==
  /\ putPc = "select"
  /\ SelectFinish([id |-> putDocId, numChunks |-> NumChunksOf(Base64Of(putFile))], ok)
  /\ loading' = FALSE
  /\ putPc' = "idle"
  /\ putResult' = "ok"
  /\ UNCHANGED << CHUNK_SIZE, otherVars, edVars, aiVars, storeVars, pdfs, selectedPdfId, putFile, putDocId,
                  putInflight, putWritten, putLog, getVars, delVars, obsVars >>

\* ------------------------------------------------------------ PdfEditor
\* persistHighlights of the editor shown for the selected document: setDoc of
\* annotations/default (the record's content is not modelled here)
PersistHighlights ==
  /\ selectedPdfId # NoId
  /\ selectedPdfUrl # NoUrl
  /\ annotationDocs' = [annotationDocs EXCEPT ![selectedPdfId] = TRUE]
  /\ UNCHANGED << CHUNK_SIZE, otherVars, edVars, aiVars, pdfDocs, chunkDocs, nextDocId, uiVars, putVars,
                  getVars, delVars, obsVars >>

\* ------------------------------------------------ handleDeleteSelectedPdf
\* faulty variant of DeleteDocOutcomes: deleting a record that does not exist rejects
DeleteDocStrict(present) == IF present THEN { "ok", "fail" } ELSE { "notFound" }

\* how a deleteDoc can settle: Firestore resolves it whether or not the
\* document exists, and rejects it when the store cannot be reached
DeleteDocOutcomes(present) == { "ok", "fail" }

\* faulty variant of AllSettled: the deletions are not awaited
NotAwaited(pending) == TRUE

\* await Promise.allSettled(deletions) has resolved
AllSettled(pending) == pending = {}

\* faulty variant of DeletionsReject: Promise.all in place of Promise.allSettled
RejectOnFirstFailure(outcome) == outcome # "ok"

\* whether the awaited combination of the deletions rejects when one of
\* them settles with `outcome`: Promise.allSettled never does
DeletionsReject(outcome) == FALSE

\* the slot a new invocation runs in: the first idle one
FreeDel(p) == delPc[p] = "idle" /\ (p = "d2" => delPc["d1"] # "idle")

\* the slot of the first click, and of a second click while the first runs
OneDel == { "d1" }

\* the catch block: line 112
DeleteFails(p) ==
  /\ error' = "Failed to delete PDF"
  /\ delPc' = [delPc EXCEPT ![p] = "idle"]
  /\ delResult' = [delResult EXCEPT ![p] = "error"]

\* the click on "Delete PDF", confirmed: lines 91-97, up to the await
DeleteStart(p) ==
  /\ FreeDel(p)
  /\ selectedPdfId # NoId
  /\ delPc' = [delPc EXCEPT ![p] = "listing"]
  /\ delDocId' = [delDocId EXCEPT ![p] = selectedPdfId]
  /\ delPending' = [delPending EXCEPT ![p] = {}]
  /\ delFaults' = [delFaults EXCEPT ![p] = {}]
  /\ delResult' = [delResult EXCEPT ![p] = "none"]
  /\ delBegun' = delBegun \cup {selectedPdfId}
  /\ UNCHANGED << CHUNK_SIZE, otherVars, edVars, aiVars, storeVars, uiVars, putVars, getVars, uploaded,
                  putComplete >>

\* getDocs of the chunks settles; on success every chunk delete and the
\* annotations delete are issued at once (lines 98-104)
DeleteListSettle(p, ok) ==
  /\ delPc[p] = "listing"
  /\ IF ~ok
     THEN /\ DeleteFails(p)
          /\ delFaults' = [delFaults EXCEPT ![p] = @ \cup {Listing[1]}]
          /\ UNCHANGED delPending
     ELSE LET d == delDocId[p]
              targets == { ChunkTarget(chunkDocs[d][j].id) : j \in 1..Len(chunkDocs[d]) }
                           \cup {Annotations}
          IN
          /\ delPending' = [delPending EXCEPT ![p] = targets]
          /\ delPc' = [delPc EXCEPT ![p] =
                         IF AllSettled(targets) THEN "meta" ELSE "deleting"]
          /\ UNCHANGED << error, delFaults, delResult >>
  /\ UNCHANGED << CHUNK_SIZE, otherVars, edVars, aiVars, storeVars, pdfs, selectedPdfId, selectedPdfUrl,
                  loading, putVars, getVars, delDocId, obsVars >>

\* the target's record is in the store
Present(d, t) ==
  IF t = Annotations THEN annotationDocs[d]
  ELSE IF t = Meta THEN pdfDocs[d].present
  ELSE \E j \in 1..Len(chunkDocs[d]) : chunkDocs[d][j].id = t[2]

\* one of the deletions settles; once all have, the delete of the pdf record
\* is issued (lines 104-106)
DeleteOneSettle(p, t, outcome) ==
  LET d == delDocId[p] IN
  /\ delPc[p] \in {"deleting", "meta"}
  /\ t \in delPending[p]
  /\ outcome \in DeleteDocOutcomes(Present(d, t))
  /\ delPending' = [delPending EXCEPT ![p] = @ \ {t}]
  /\ delFaults' = [delFaults EXCEPT ![p] = IF outcome = "fail" THEN @ \cup {t[1]} ELSE @]
  /\ IF outcome = "ok"
     THEN IF t = Annotations
          THEN /\ annotationDocs' = [annotationDocs EXCEPT ![d] = FALSE]
               /\ UNCHANGED chunkDocs
          ELSE /\ chunkDocs' = [chunkDocs EXCEPT ![d] = SelectSeq(@, LAMBDA r : r.id # t[2])]
               /\ UNCHANGED annotationDocs
     ELSE UNCHANGED << chunkDocs, annotationDocs >>
  /\ IF outcome # "ok" /\ DeletionsReject(outcome)
     THEN DeleteFails(p)
     ELSE /\ delPc' = [delPc EXCEPT ![p] =
                         IF delPc[p] = "meta" \/ AllSettled(delPending'[p])
                         THEN "meta" ELSE "deleting"]
          /\ UNCHANGED << error, delResult >>
  /\ UNCHANGED << CHUNK_SIZE, otherVars, edVars, aiVars, pdfDocs, nextDocId, pdfs, selectedPdfId, selectedPdfUrl,
                  loading, putVars, getVars, delDocId, obsVars >>

\* the delete of the pdf record settles and the handler ends (lines 106-113)
DeleteMetaSettle(p, outcome) ==
  LET d == delDocId[p] IN
  /\ delPc[p] = "meta"
  /\ outcome \in DeleteDocOutcomes(Present(d, Meta))
  /\ IF outcome = "ok"
     THEN /\ pdfDocs' = [pdfDocs EXCEPT ![d] = NoDoc]
          /\ pdfs' = SelectSeq(pdfs, LAMBDA it : it.id # d)
          /\ selectedPdfId' = NoId
          /\ selectedPdfUrl' = NoUrl
          /\ delPc' = [delPc EXCEPT ![p] = "idle"]
          /\ delResult' = [delResult EXCEPT ![p] = "ok"]
          /\ UNCHANGED << error, delFaults >>
     ELSE /\ DeleteFails(p)
          /\ delFaults' = [delFaults EXCEPT ![p] = IF outcome = "fail" THEN @ \cup {Meta[1]} ELSE @]
          /\ UNCHANGED << pdfDocs, pdfs, selectedPdfId, selectedPdfUrl >>
  /\ UNCHANGED << CHUNK_SIZE, otherVars, edVars, aiVars, chunkDocs, annotationDocs, nextDocId, loading, putVars,
                  getVars, delDocId, delPending, obsVars >>

\* ------------------------------------------------- PdfEditor: annotations
\* A string is the sequence of its characters.  A double returned by
\* Math.random() is [digits, exp]: 0.<digits> when exp is empty, and
\* <digits> * 10^-<exp> below 1e-6, where Number::toString switches to the
\* exponent form; no digits at all is 0.
Randoms == { [digits |-> << "5" >>, exp |-> << >>],
             [digits |-> << "2", "5" >>, exp |-> << "7" >>] }

\* String(x) for a double 0 <= x < 1
NumberToString(x) ==
  IF x.digits = << >> THEN << "0" >>
  ELSE IF x.exp = << >> THEN << "0", "." >> \o x.digits
  ELSE << Head(x.digits) >>
         \o (IF Len(x.digits) > 1 THEN << "." >> \o Tail(x.digits) ELSE << >>)
         \o << "e", "-" >> \o x.exp

\* String(Math.random()).slice(2)
RandomId(x) == SubSeq(NumberToString(x), 3, Len(NumberToString(x)))

RECURSIVE TrimStart(_)
TrimStart(t) == IF t # << >> /\ Head(t) = " " THEN TrimStart(Tail(t)) ELSE t

RECURSIVE TrimEnd(_)
TrimEnd(t) ==
  IF t # << >> /\ t[Len(t)] = " " THEN TrimEnd(SubSeq(t, 1, Len(t) - 1)) ELSE t

\* String.prototype.trim
Trim(t) == TrimEnd(TrimStart(t))

\* what the user selects, types and picks in the tip, and where an area
\* highlight is dragged to
NewPosition == "p1"
NewContent == "text"
NewComment == "c"
NewMeta == [severity |-> "high", category |-> "safety", replies |-> << >>]
MovedPosition == "p2"
MovedContent == "image"
ReplyDrafts == { << " " >>, << "r", " " >> }
NoMeta == [severity |-> "undefined", category |-> "undefined", replies |-> << >>]
DefaultMeta == [severity |-> "medium", category |-> "general", replies |-> << >>]

\* the ids of the highlights of a set, in order
IdsOf(hs) == [j \in 1..Len(hs) |-> hs[j].id]

\* faulty variant of AddHighlight: the new highlight goes behind the others
AddHighlightAtTail(prev, x, position, content, commentText, meta) ==
  prev \o << [id |-> RandomId(x), position |-> position, content |-> content,
              comment |-> commentText, meta |-> meta] >>

\* addHighlightWithMeta: the new highlight (lines 775-780) ahead of the others
AddHighlight(prev, x, position, content, commentText, meta) ==
  << [id |-> RandomId(x), position |-> position, content |-> content,
      comment |-> commentText, meta |-> meta] >> \o prev

\* faulty variant of UpdateGeometry: every highlight is moved
UpdateGeometryOfAll(prev, id, position, content) ==
  [j \in 1..Len(prev) |-> [prev[j] EXCEPT !.position = position, !.content = content]]

\* updateHighlight: prev.map (line 796)
UpdateGeometry(prev, id, position, content) ==
  [j \in 1..Len(prev) |->
     IF prev[j].id = id
     THEN [prev[j] EXCEPT !.position = position, !.content = content]
     ELSE prev[j]]

\* faulty variant of Remove: only the first highlight with the id is dropped
RemoveFirst(prev, id) ==
  LET at == { j \in 1..Len(prev) : prev[j].id = id }
  IN IF at = {} THEN prev
     ELSE LET k == CHOOSE j \in at : \A i \in at : j <= i
          IN SubSeq(prev, 1, k - 1) \o SubSeq(prev, k + 1, Len(prev))

\* removeHighlight: prev.filter (line 807)
Remove(prev, id) == SelectSeq(prev, LAMBDA h : h.id # id)

\* createReply (line 650)
CreateReply(x, val) == [id |-> RandomId(x), text |-> val]

\* faulty variant of AppendReply: the reply goes to the end of the list
AppendReplyAtTail(prev, id, reply) ==
  [j \in 1..Len(prev) |->
     IF prev[j].id # id THEN prev[j]
     ELSE LET existing == IF prev[j].meta = NoMeta THEN DefaultMeta ELSE prev[j].meta
          IN [prev[j] EXCEPT !.meta =
                [existing EXCEPT !.replies = existing.replies \o << reply >>]]]

\* the Reply button's updater: prev.map (lines 1072-1076)
AppendReply(prev, id, reply) ==
  [j \in 1..Len(prev) |->
     IF prev[j].id # id THEN prev[j]
     ELSE LET existing == IF prev[j].meta = NoMeta THEN DefaultMeta ELSE prev[j].meta
          IN [prev[j] EXCEPT !.meta =
                [existing EXCEPT !.replies = << reply >> \o existing.replies]]]

\* the document PdfEditor is rendered for: line 248 of ProjectViewer
EditorTarget ==
  IF selectedPdfUrl # NoUrl /\ selectedPdfId # NoId THEN selectedPdfId ELSE NoId

\* React has rendered the current props and run the effects they trigger
Reconciled == edPdfId = EditorTarget

\* the cleanup of the load effect: cancelled = true
CancelLoads(loads) == { [l EXCEPT !.cancelled = TRUE] : l \in loads }

\* PdfEditor is mounted, unmounted, or given another pdfId: the render and the
\* load effect up to its await (lines 706-713); the highlights state survives
\* a change of pdfId and is dropped by an unmount
EditorRender ==
  /\ ~Reconciled
  /\ edPdfId' = EditorTarget
  /\ IF EditorTarget = NoId
     THEN /\ highlights' = << >>
          /\ isLoading' = FALSE
          /\ edError' = NoError
          /\ edLoads' = CancelLoads(edLoads)
     ELSE /\ highlights' = IF edPdfId = NoId THEN << >> ELSE highlights
          /\ isLoading' = TRUE
          /\ edError' = NoError
          /\ edLoads' = CancelLoads(edLoads)
                          \cup { [doc |-> EditorTarget, cancelled |-> FALSE] }
  /\ UNCHANGED << CHUNK_SIZE, otherVars, storeVars, uiVars, putVars, getVars, delVars, obsVars,
                  annotationData, viewLoadPc, reloads, persists, edits, persistLog,
                  loadLog, aiVars >>

\* data?.highlights of the snapshot, or [] (lines 714-719)
LoadedHighlights(exists, field) ==
  IF exists /\ field.present THEN field.highlights ELSE << >>

\* faulty variant of LoadFails: a record that does not exist is an error
LoadFailsWhenMissing(ok, exists) == ~ok \/ ~exists

\* the catch block of load() runs: only when getDoc rejects (line 720)
LoadFails(ok, exists) == ~ok

\* getDoc of the load effect settles (lines 713-724)
LoadSettle(l, ok) ==
  /\ Reconciled
  /\ l \in edLoads
  /\ edLoads' = edLoads \ {l}
  /\ IF l.cancelled
     THEN UNCHANGED << highlights, isLoading, edError, loadLog >>
     ELSE /\ isLoading' = FALSE
          /\ loadLog' = [doc |-> l.doc, ok |-> ok,
                         found |-> annotationDocs[l.doc] /\ annotationData[l.doc].present]
          /\ IF LoadFails(ok, annotationDocs[l.doc])
             THEN /\ edError' = "Failed to load annotations"
                  /\ UNCHANGED highlights
             ELSE /\ highlights' = LoadedHighlights(annotationDocs[l.doc], annotationData[l.doc])
                  /\ UNCHANGED edError
  /\ UNCHANGED << CHUNK_SIZE, otherVars, storeVars, uiVars, putVars, getVars, delVars, obsVars,
                  annotationData, viewLoadPc, reloads, edPdfId, persists, edits,
                  persistLog, aiVars >>

\* faulty variant of PersistArgument: the set before the mutation is written
PersistStale(prev, updated) == prev

\* the argument of persistHighlights in the updaters: `updated`
PersistArgument(prev, updated) == updated

\* a mutation: setHighlights((prev) => ..) with void persistHighlights(updated)
\* inside the updater, up to the await of setDoc (lines 759-765)
Mutate(updated) ==
  /\ Reconciled
  /\ edPdfId # NoId
  /\ edits < MaxEdits
  /\ edits' = edits + 1
  /\ highlights' = updated
  /\ persists' = Append(persists, [doc |-> edPdfId, seq |-> edits + 1,
                                   next |-> PersistArgument(highlights, updated)])
  /\ UNCHANGED << CHUNK_SIZE, otherVars, storeVars, uiVars, putVars, getVars, delVars, obsVars,
                  annotationData, viewLoadPc, reloads, edPdfId, isLoading, edError,
                  edLoads, persistLog, loadLog, aiVars >>

\* Save in the new-comment tip: onConfirm, addHighlightWithMeta (773-788, 891-895)
AddHighlightWithMeta(x) ==
  Mutate(AddHighlight(highlights, x, NewPosition, NewContent, NewComment, NewMeta))

\* an area highlight is dragged: updateHighlight (793-802, 918-923)
UpdateHighlight(id) ==
  Mutate(UpdateGeometry(highlights, id, MovedPosition, MovedContent))

\* Delete on a comment card: removeHighlight (804-813)
RemoveHighlight(id) == Mutate(Remove(highlights, id))

\* Reply on a comment card (lines 1067-1081): nothing happens for a draft that
\* trims to nothing
Reply(id, draft, x) ==
  IF Trim(draft) = << >>
  THEN /\ Reconciled
       /\ edPdfId # NoId
       /\ UNCHANGED vars
  ELSE Mutate(AppendReply(highlights, id, CreateReply(x, Trim(draft))))

\* faulty variant of StoredAfter: the write is dropped when the record already
\* has highlights
KeepsFirstWrite(old, next) ==
  IF old.present THEN old ELSE [present |-> TRUE, highlights |-> next]

\* faulty variant of StoredAfter: the lists of highlights are merged
MergesLists(old, next) == [present |-> TRUE, highlights |-> next \o old.highlights]

\* setDoc(.., {highlights: next, ..}, {merge: true}): the highlights field is
\* replaced as a whole
StoredAfter(old, next) == [present |-> TRUE, highlights |-> next]

\* what the catch block of persistHighlights leaves in the error state: it
\* only calls console.error (line 767)
PersistErrorMessage(e) == e

\* one of the setDoc calls of persistHighlights settles (lines 761-768)
PersistSettle(i, ok) ==
  /\ i \in 1..Len(persists)
  /\ LET w == persists[i] IN
       /\ persists' = SubSeq(persists, 1, i - 1) \o SubSeq(persists, i + 1, Len(persists))
       /\ persistLog' = Append(persistLog, [seq |-> w.seq, ok |-> ok, doc |-> w.doc,
                                            next |-> w.next])
       /\ IF ok
          THEN /\ annotationDocs' = [annotationDocs EXCEPT ![w.doc] = TRUE]
               /\ annotationData' = [annotationData EXCEPT ![w.doc] = StoredAfter(@, w.next)]
               /\ UNCHANGED edError
          ELSE /\ edError' = PersistErrorMessage(edError)
               /\ UNCHANGED << annotationDocs, annotationData >>
  /\ UNCHANGED << CHUNK_SIZE, otherVars, pdfDocs, chunkDocs, nextDocId, uiVars, putVars, getVars,
                  delVars, obsVars, viewLoadPc, reloads, edPdfId, highlights, isLoading,
                  edLoads, edits, loadLog, aiVars >>

\* ------------------------------------------------------ suggestComment
\* The text a provider returns is a sequence of tokens: "{" and "}", "x" for
\* any other text, and "t", "s", "c" for a well-formed member "text":"ok",
\* "severity":"high", "category":"safety" with its separator.
Members == { "t", "s", "c" }
ValidJson == << "{", "t", "s", "c", "}" >>
WrappedJson == << "x", "{", "t", "}", "x" >>
Prose == << "x" >>
BrokenJson == << "{", "x", "}" >>
Unclosed == << "{", "t" >>
ProviderTexts == { ValidJson, WrappedJson, Prose, BrokenJson, Unclosed, << >> }

\* the responses of the Responses API the model tries
Joined(t) == [Bare EXCEPT !.output_text = Str(t)]
Node(text) == [text |-> text, content |-> Undefined, value |-> Undefined]
Nested(text) ==
  [Bare EXCEPT !.output = [kind |-> "array", items |-> << << Node(text) >> >>]]
Legacy(t) == [Bare EXCEPT !.choice = Str(t)]
PrimaryResponses ==
  { Joined(t) : t \in ProviderTexts }
    \cup { Nested(Str(ValidJson)), Nested(Wrapper(ValidJson)), Legacy(ValidJson), Bare }
\* the responses of the chat completions API: choices[0].message.content
ChatResponses == { Legacy(t) : t \in ProviderTexts } \cup { [Bare EXCEPT !.choice = Null] }

\* typeof v === "string" && v.length > 0
NonEmptyString(v) == v.kind = "string" /\ v.s # << >>

\* faulty variant of NodeText: a {value} wrapper is not read
NodeTextPlainOnly(c) ==
  IF NonEmptyString(c.text) THEN c.text
  ELSE LET alt == IF c.content.kind \notin {"undefined", "null"} THEN c.content
                  ELSE c.value
       IN IF NonEmptyString(alt) THEN alt ELSE Undefined

\* the text of one content node (lines 167-173), or Undefined
NodeText(c) ==
  IF NonEmptyString(c.text) THEN c.text
  ELSE IF c.text.kind = "object" /\ c.text.s # << >> THEN Str(c.text.s)
  ELSE LET alt == IF c.content.kind \notin {"undefined", "null"} THEN c.content
                  ELSE c.value
       IN IF NonEmptyString(alt) THEN alt ELSE Undefined

RECURSIVE FirstNodeText(_)
\* the first node of the list with a text, in order
FirstNodeText(nodes) ==
  IF nodes = << >> THEN Undefined
  ELSE IF NodeText(Head(nodes)) # Undefined THEN NodeText(Head(nodes))
  ELSE FirstNodeText(Tail(nodes))

\* extractOutputText (lines 159-179)
extractOutputText(r) ==
  IF NonEmptyString(r.output_text) THEN r.output_text
  ELSE LET out == IF r.output.kind = "array" THEN r.output.items ELSE r.outputs.items
           scanned == FirstNodeText(Join(out))
       IN IF scanned # Undefined THEN scanned
          ELSE IF NonEmptyString(r.choice) THEN r.choice
          ELSE Undefined

\* content.indexOf("{") and content.lastIndexOf("}"), counted from 1; 0 is -1
IndexOf(t, ch) ==
  IF \E i \in 1..Len(t) : t[i] = ch
  THEN CHOOSE i \in 1..Len(t) : t[i] = ch /\ \A j \in 1..(i - 1) : t[j] # ch
  ELSE 0
LastIndexOf(t, ch) ==
  IF \E i \in 1..Len(t) : t[i] = ch
  THEN CHOOSE i \in 1..Len(t) : t[i] = ch /\ \A j \in (i + 1)..Len(t) : t[j] # ch
  ELSE 0

\* content.slice(jsonStart, jsonEnd + 1)
RawJson(t) == SubSeq(t, IndexOf(t, "{"), LastIndexOf(t, "}"))

\* JSON.parse(raw) throws
ParseThrows(raw) ==
  ~ /\ Len(raw) >= 2
    /\ raw[1] = "{"
    /\ raw[Len(raw)] = "}"
    /\ \A i \in 2..(Len(raw) - 1) : raw[i] \in Members

\* faulty variant of Slice: the text is passed on whole
Whole(t, n) == t

\* t.slice(0, n)
Slice(t, n) == SubSeq(t, 1, Min(Len(t), n))

\* pdfContext and excerpt (lines 198-199)
PdfContext(input) == Slice(input.pdfText, ContextLimit)
Excerpt(input) == Slice(input.highlightText, ExcerptLimit)

\* the text of the member "text":"ok"
Ok == << "o", "k" >>

\* faulty variant of SuggestionOf: a missing field stays undefined
SuggestionAsParsed(raw, excerpt) ==
  LET has(m) == \E i \in 1..Len(raw) : raw[i] = m IN
  [text |-> IF has("t") THEN Ok ELSE << >>,
   severity |-> IF has("s") THEN "high" ELSE "undefined",
   category |-> IF has("c") THEN "safety" ELSE "undefined"]

\* the suggestion built from the parsed object (lines 236-240, 264-268)
SuggestionOf(raw, excerpt) ==
  LET has(m) == \E i \in 1..Len(raw) : raw[i] = m IN
  [text |-> IF has("t") THEN Ok ELSE excerpt,
   severity |-> IF has("s") THEN "high" ELSE "medium",
   category |-> IF has("c") THEN "safety" ELSE "general"]

\* what becomes of a text the provider returned: "null" (return null),
\* "throw" (JSON.parse throws) or "suggestion"
TextOutcome(content) ==
  IF ~NonEmptyString(content) THEN "null"
  ELSE IF IndexOf(content.s, "{") = 0 \/ LastIndexOf(content.s, "}") = 0 THEN "null"
  ELSE IF ParseThrows(RawJson(content.s)) THEN "throw"
  ELSE "suggestion"

ReturnsNull == [kind |-> "null", value |-> NoSuggestion, from |-> "none"]
Returns(content, from, excerpt) ==
  IF TextOutcome(content) = "suggestion"
  THEN [kind |-> "suggestion", value |-> SuggestionOf(RawJson(content.s), excerpt),
        from |-> from]
  ELSE ReturnsNull

\* the parts of the prompt that come from the parameters, built once (lines
\* 201-217)
PromptOf(input) == [excerpt |-> Excerpt(input), context |-> PdfContext(input)]

\* faulty variant of HasKey: the key is not looked at
KeyAssumed(input) == TRUE

\* params.apiKey || import.meta.env.VITE_OPENAI_API_KEY is set (lines 192-193,
\* 319-320, 389-390)
HasKey(input) == input.apiKey \/ envKey

\* the slot a new invocation runs in: the first unused one
FreeCall(c) == aiPc[c] = "idle" /\ (c = "s2" => aiPc["s1"] # "idle")

\* generateSuggestion (part_001 869-881): the previous controller is aborted,
\* a new one made, and suggestComment runs up to the await of its primary
\* call (ai.ts 192-227); without a key it returns null at once
SuggestStart(c, input) ==
  /\ FreeCall(c)
  /\ aiInput' = [aiInput EXCEPT ![c] = input]
  /\ aiAborted' = [k \in Calls |-> IF k = aiAbortRef THEN TRUE ELSE aiAborted[k]]
  /\ aiAbortRef' = c
  /\ IF HasKey(input)
     THEN /\ aiPc' = [aiPc EXCEPT ![c] = "primary"]
          /\ aiCalls' = [aiCalls EXCEPT ![c] =
                           << [endpoint |-> "responses", prompt |-> PromptOf(input)] >>]
          /\ UNCHANGED aiResult
     ELSE /\ aiPc' = [aiPc EXCEPT ![c] = "done"]
          /\ aiResult' = [aiResult EXCEPT ![c] = ReturnsNull]
          /\ UNCHANGED aiCalls
  /\ UNCHANGED << CHUNK_SIZE, otherVars, storeVars, uiVars, putVars, getVars, delVars, obsVars,
                  edVars, aiPrimary, aiSecondary >>

\* the primary path ends in the catch block (line 242): the call rejected or
\* JSON.parse threw
PrimaryFailsOver(threw, resp) ==
  threw \/ TextOutcome(extractOutputText(resp)) = "throw"

\* client.responses.create settles (lines 222-256): the suggestion or null is
\* returned, or the catch block issues the chat completions call
PrimarySettle(c, threw, resp) ==
  /\ aiPc[c] = "primary"
  /\ aiPrimary' = [aiPrimary EXCEPT ![c] = [threw |-> threw, resp |-> resp]]
  /\ IF PrimaryFailsOver(threw, resp)
     THEN /\ aiPc' = [aiPc EXCEPT ![c] = "fallback"]
          /\ aiCalls' = [aiCalls EXCEPT ![c] =
                           Append(@, [endpoint |-> "chat", prompt |-> PromptOf(aiInput[c])])]
          /\ UNCHANGED aiResult
     ELSE /\ aiPc' = [aiPc EXCEPT ![c] = "done"]
          /\ aiResult' = [aiResult EXCEPT ![c] = Returns(extractOutputText(resp), "primary",
                                                     Excerpt(aiInput[c]))]
          /\ UNCHANGED aiCalls
  /\ UNCHANGED << CHUNK_SIZE, otherVars, storeVars, uiVars, putVars, getVars, delVars, obsVars,
                  edVars, aiAborted, aiSecondary, aiAbortRef, aiInput >>

\* faulty variant of FallbackCatch: the failure of the fallback is rethrown
FallbackRethrows == [kind |-> "raised", value |-> NoSuggestion, from |-> "fallback"]

\* the inner catch block (lines 270-273)
FallbackCatch == ReturnsNull

\* chat.choices?.[0]?.message?.content || undefined (line 257)
ChatContent(resp) == IF NonEmptyString(resp.choice) THEN resp.choice ELSE Undefined

\* client.chat.completions.create settles (lines 250-273)
FallbackSettle(c, threw, resp) ==
  /\ aiPc[c] = "fallback"
  /\ aiSecondary' = [aiSecondary EXCEPT ![c] = [threw |-> threw, resp |-> resp]]
  /\ aiPc' = [aiPc EXCEPT ![c] = "done"]
  /\ aiResult' = [aiResult EXCEPT ![c] =
                    IF threw \/ TextOutcome(ChatContent(resp)) = "throw"
                    THEN FallbackCatch
                    ELSE Returns(ChatContent(resp), "fallback", Excerpt(aiInput[c]))]
  /\ UNCHANGED << CHUNK_SIZE, otherVars, storeVars, uiVars, putVars, getVars, delVars, obsVars,
                  edVars, aiAborted, aiCalls, aiPrimary, aiAbortRef, aiInput >>

\* ------------------------------------------------------------- askExpert
\* A question is a sequence of tokens: "@search" and "@think" as written,
\* "@SEARCH" and "@THINK" for the same words with a letter in upper case,
\* " " for white space and "q" for any other text.
Tags == { "@search", "@think", "@SEARCH", "@THINK" }
QuestionTokens == Tags \cup { " ", "q" }

RECURSIVE TokenSeqs(_, _)
\* the sequences over S of length n at most
TokenSeqs(S, n) ==
  IF n = 0 THEN { << >> }
  ELSE LET shorter == TokenSeqs(S, n - 1)
       IN shorter \cup { Append(t, x) : t \in shorter, x \in S }

Questions == TokenSeqs(QuestionTokens, MaxQuestion)

\* history[i]: content is the position of the turn
Turn(i, role) == [role |-> role, content |-> ToString(i)]
\* the histories of n turns whose roles alternate
Alternating(n, first, second) ==
  [i \in 1..n |-> Turn(i, IF i % 2 = 1 THEN first ELSE second)]
Histories ==
  { Alternating(n, "user", "assistant") : n \in 0..MaxHistory }
    \cup { Alternating(n, "assistant", "user") : n \in 0..MaxHistory }

\* the parameters of askExpert
AskInput(apiKey, pdfText, question, history) ==
  [apiKey |-> apiKey, pdfText |-> pdfText, question |-> question, history |-> history]
NoAsk == AskInput(FALSE, << >>, << >>, << >>)

\* raw (line 323)
Raw(question) == Trim(question)

\* isSearch, isThink (lines 324-325)
IsSearch(question) == Raw(question) # << >> /\ Head(Raw(question)) = "@search"
IsThink(question) == Raw(question) # << >> /\ Head(Raw(question)) = "@think"

\* raw.replace(/^@(search|think)\s*/i, '').trim() (line 326)
Cleaned(question) ==
  LET raw == Raw(question)
  IN Trim(IF raw # << >> /\ Head(raw) \in Tags THEN TrimStart(Tail(raw)) ELSE raw)

\* How the request of searchWebDuckDuckGo ends: fetch rejects, the status is
\* not ok, the body is no JSON, or the body yields `lines` result lines.
LookupOutcome(kind, lines) == [kind |-> kind, lines |-> lines]
NoLookup == LookupOutcome("none", 0)
LookupOutcomes ==
  { LookupOutcome(k, 0) : k \in { "reject", "notok", "badjson" } }
    \cup { LookupOutcome("data", n) : n \in { 0, 2, MaxResults + 1 } }

\* searchWebDuckDuckGo (lines 278-307): null, or the first five lines joined
searchWebDuckDuckGo(outcome) ==
  IF outcome.kind # "data" THEN Null
  ELSE Str(Slice(Text(outcome.lines), MaxResults))

\* faulty variant of LastTurns: the oldest turns are kept
FirstTurns(history, n) == SubSeq(history, 1, Min(Len(history), n))

\* params.history.slice(-10)
LastTurns(history, n) ==
  SubSeq(history, Len(history) - Min(Len(history), n) + 1, Len(history))

\* m.role === 'user' ? 'User' : 'Assistant'
RoleLabel(role) == IF role = "user" THEN "User" ELSE "Assistant"

\* historyText (lines 335-339): whether the block with its heading is there,
\* and its lines << label, content >>
HistoryText(history) ==
  IF history = << >> THEN [block |-> FALSE, lines |-> << >>]
  ELSE LET kept == LastTurns(history, HistoryTurns)
       IN [block |-> TRUE,
           lines |-> [i \in 1..Len(kept) |->
                        << RoleLabel(kept[i].role), kept[i].content >>]]

\* instructions (lines 330-333): its second sentence
Instructions(question) == IF IsThink(question) THEN "deliberate" ELSE "succinct"

\* userPrompt (lines 341-349) with searchAppendix `appendix`
UserPrompt(input, appendix) ==
  [web |-> IF IsSearch(input.question) /\ NonEmptyString(appendix)
           THEN [block |-> TRUE, lines |-> appendix.s]
           ELSE [block |-> FALSE, lines |-> << >>],
   context |-> Slice(input.pdfText, ExpertContextLimit),
   history |-> HistoryText(input.history),
   question |-> Cleaned(input.question)]
NoPrompt == UserPrompt(NoAsk, Null)

\* the requests askExpert sends
WebRequest(input) ==
  [endpoint |-> "duckduckgo", query |-> Cleaned(input.question),
   instructions |-> "none", prompt |-> NoPrompt, effort |-> "none"]
\* reasoning.effort (line 357)
Effort(question) == IF IsThink(question) THEN "high" ELSE "minimal"
\* lines 354-358
ResponsesRequest(input, appendix) ==
  [endpoint |-> "responses", query |-> << >>,
   instructions |-> Instructions(input.question),
   prompt |-> UserPrompt(input, appendix), effort |-> Effort(input.question)]
\* lines 364-370
ChatRequest(input, appendix) ==
  [endpoint |-> "chat", query |-> << >>,
   instructions |-> Instructions(input.question),
   prompt |-> UserPrompt(input, appendix), effort |-> "none"]

\* what askExpert returns
Pending == [kind |-> "pending", text |-> << >>]
AnswerNull == [kind |-> "null", text |-> << >>]
\* content || null
TextOrNull(content) ==
  IF NonEmptyString(content) THEN [kind |-> "text", text |-> content.s] ELSE AnswerNull

\* no askExpert has been called
InitAsk ==
  /\ askPc = "idle"
  /\ askInput = NoAsk
  /\ askLookup = NoLookup
  /\ askCalls = << >>
  /\ askPrimary = NoOutcome
  /\ askSecondary = NoOutcome
  /\ askResult = Pending

\* askExpert runs up to its first await (lines 319-354): without a key it
\* returns null; with the search tag it sends the web lookup; otherwise it
\* sends the primary call
AskStart(input) ==
  /\ askPc = "idle"
  /\ askInput' = input
  /\ IF ~HasKey(input)
     THEN /\ askPc' = "done"
          /\ askResult' = AnswerNull
          /\ UNCHANGED askCalls
     ELSE IF IsSearch(input.question)
     THEN /\ askPc' = "lookup"
          /\ askCalls' = << WebRequest(input) >>
          /\ UNCHANGED askResult
     ELSE /\ askPc' = "primary"
          /\ askCalls' = << ResponsesRequest(input, Null) >>
          /\ UNCHANGED askResult
  /\ UNCHANGED << pageVars, aiVars, focusVars, askLookup, askPrimary, askSecondary >>

\* the web lookup settles (line 328) and the primary call is sent with the
\* prompt built from its result (lines 330-358)
AskLookupSettle(outcome) ==
  /\ askPc = "lookup"
  /\ askLookup' = outcome
  /\ askPc' = "primary"
  /\ askCalls' = Append(askCalls, ResponsesRequest(askInput, searchWebDuckDuckGo(outcome)))
  /\ UNCHANGED << pageVars, aiVars, focusVars, askInput, askPrimary, askSecondary,
                  askResult >>

\* client.responses.create settles (lines 354-370): the text or null is
\* returned, or the catch block sends the chat completions call
AskPrimarySettle(threw, resp) ==
  /\ askPc = "primary"
  /\ askPrimary' = [threw |-> threw, resp |-> resp]
  /\ IF threw
     THEN /\ askPc' = "fallback"
          /\ askCalls' = Append(askCalls,
                                ChatRequest(askInput, searchWebDuckDuckGo(askLookup)))
          /\ UNCHANGED askResult
     ELSE /\ askPc' = "done"
          /\ askResult' = TextOrNull(extractOutputText(resp))
          /\ UNCHANGED askCalls
  /\ UNCHANGED << pageVars, aiVars, focusVars, askInput, askLookup, askSecondary >>

\* client.chat.completions.create settles (lines 364-375)
AskFallbackSettle(threw, resp) ==
  /\ askPc = "fallback"
  /\ askSecondary' = [threw |-> threw, resp |-> resp]
  /\ askPc' = "done"
  /\ askResult' = IF threw THEN AnswerNull ELSE TextOrNull(resp.choice)
  /\ UNCHANGED << pageVars, aiVars, focusVars, askInput, askLookup, askCalls,
                  askPrimary >>

\* ------------------------------------------------------ suggestNextFocus
\* The members of the object the provider returns: "pNum" for
\* "pageNumber":12, "pStr" for "pageNumber":"12", "pNull" for
\* "pageNumber":null, "gAll" for a suggestion with its three fields, "gText"
\* for one with a text only, "gNone" for "suggestion":{}, "gNull" for
\* "suggestion":null. A text names each key once at most.
FocusMembers == { "pNum", "pStr", "pNull", "gAll", "gText", "gNone", "gNull" }
FocusTexts ==
  { << "{", "pNum", "gAll", "}" >>, << "{", "pStr", "gText", "}" >>,
    << "{", "pNull", "gNull", "}" >>, << "{", "gNone", "}" >>,
    << "{", "pNum", "}" >>, << "{", "}" >>,
    << "x", "{", "pNum", "gAll", "}", "x" >>,
    << "{", "x", "}" >>, << "{", "pNum" >>, << "x" >>, << >> }
FocusResponses == UNION { { Joined(t), Nested(Str(t)), Legacy(t) } : t \in FocusTexts } \cup { Bare }

\* JSON.parse(content.slice(jStart, jEnd + 1)) throws
FocusParseThrows(raw) ==
  ~ /\ Len(raw) >= 2
    /\ raw[1] = "{"
    /\ raw[Len(raw)] = "}"
    /\ \A i \in 2..(Len(raw) - 1) : raw[i] \in FocusMembers

\* faulty variant of PageNumberOf: whatever was parsed is passed on
PageNumberAsParsed(raw) ==
  IF \E i \in 1..Len(raw) : raw[i] = "pNum" THEN "12"
  ELSE IF \E i \in 1..Len(raw) : raw[i] = "pStr" THEN "'12'"
  ELSE "null"

\* typeof parsed.pageNumber === 'number' ? parsed.pageNumber : null
PageNumberOf(raw) == IF \E i \in 1..Len(raw) : raw[i] = "pNum" THEN "12" ELSE "null"

\* the value returned for the parsed object (lines 413-421)
FocusOf(raw) ==
  LET has(m) == \E i \in 1..Len(raw) : raw[i] = m IN
  [pageNumber |-> PageNumberOf(raw),
   suggestion |-> [text |-> IF has("gAll") \/ has("gText") THEN Ok ELSE << >>,
                   severity |-> IF has("gAll") THEN "high" ELSE "medium",
                   category |-> IF has("gAll") THEN "safety" ELSE "general"]]

NoFocus == [pageNumber |-> "null", suggestion |-> NoSuggestion]
FocusPending == [kind |-> "pending", value |-> NoFocus]
FocusNull == [kind |-> "null", value |-> NoFocus]

\* what the try block makes of the response (lines 408-421): null, or the
\* value built from the parsed object; a JSON.parse that throws ends in the
\* catch block, which returns null (lines 423-425)
FocusReturns(resp) ==
  LET content == extractOutputText(resp)
      raw == RawJson(content.s)
  IN IF ~NonEmptyString(content) THEN FocusNull
     ELSE IF IndexOf(content.s, "{") = 0 \/ LastIndexOf(content.s, "}") = 0 THEN FocusNull
     ELSE IF FocusParseThrows(raw) THEN FocusNull
     ELSE [kind |-> "focus", value |-> FocusOf(raw)]

\* the request suggestNextFocus sends (lines 399-407)
FocusRequest(pdfText) ==
  [endpoint |-> "responses", context |-> Slice(pdfText, FocusContextLimit)]

\* the parameters of suggestNextFocus
FocusInput(apiKey, pdfText) == [apiKey |-> apiKey, pdfText |-> pdfText]
NoFocusInput == FocusInput(FALSE, << >>)

\* no suggestNextFocus has been called
InitFocus ==
  /\ focusPc = "idle"
  /\ focusInput = NoFocusInput
  /\ focusCalls = << >>
  /\ focusPrimary = NoOutcome
  /\ focusResult = FocusPending

\* suggestNextFocus runs up to its await (lines 389-407): without a key it
\* returns null
FocusStart(input) ==
  /\ focusPc = "idle"
  /\ focusInput' = input
  /\ IF HasKey(input)
     THEN /\ focusPc' = "primary"
          /\ focusCalls' = << FocusRequest(input.pdfText) >>
          /\ UNCHANGED focusResult
     ELSE /\ focusPc' = "done"
          /\ focusResult' = FocusNull
          /\ UNCHANGED focusCalls
  /\ UNCHANGED << pageVars, aiVars, askVars, focusPrimary >>

\* client.responses.create settles (lines 407-425)
FocusSettle(threw, resp) ==
  /\ focusPc = "primary"
  /\ focusPrimary' = [threw |-> threw, resp |-> resp]
  /\ focusPc' = "done"
  /\ focusResult' = IF threw THEN FocusNull ELSE FocusReturns(resp)
  /\ UNCHANGED << pageVars, aiVars, askVars, focusInput, focusCalls >>

\* ---------------------------------------------------- CreateProjectCard
\* coverFile === null; otherwise a File of `size` bytes
NoFile == [present |-> FALSE, size |-> 0]
File(size) == [present |-> TRUE, size |-> size]
CoverFiles == { File(n) : n \in 0..MaxCover }
\* a project name is a sequence of " " and "n", any other character
Names == { << >>, << " " >>, << "n" >>, << " ", "n" >> }
NoArgs == [name |-> << >>, coverFile |-> NoFile]

\* the messages setError is called with (lines 45, 49, 59, 64, 85)
NotConfigured == "Firebase is not configured"
NoName == "Please enter a project name"
TooLarge == "Image too large. Please choose an image under 700KB."
ReadFailed == "Failed to read image"
CreateFailed == "Failed to create project"

\* faulty variant of ExceedsCap: no file is too large
NeverExceeds(file) == FALSE

\* coverFile.size > maxBytes (lines 58-59)
ExceedsCap(file) == file.size > maxBytes

\* the dialog is closed and empty, and there is no project
InitCreate(cfg) ==
  /\ projects = << >>
  /\ configured \in cfg
  /\ open = FALSE
  /\ name = << >>
  /\ coverFile = NoFile
  /\ submitting = FALSE
  /\ createError = NoError
  /\ createPc = "idle"
  /\ createArgs = NoArgs
  /\ creates = 0

\* the card is clicked (line 95)
OpenDialog ==
  /\ ~open
  /\ open' = TRUE
  /\ UNCHANGED << viewerVars, projects, configured, name, coverFile, submitting,
                  createError, createPc, createArgs, creates >>

\* "Cancel" is clicked (line 138)
CancelDialog ==
  /\ open /\ ~submitting
  /\ open' = FALSE
  /\ UNCHANGED << viewerVars, projects, configured, name, coverFile, submitting,
                  createError, createPc, createArgs, creates >>

\* the name is typed (line 118)
NameChange(n) ==
  /\ open
  /\ name' = n
  /\ UNCHANGED << viewerVars, projects, configured, open, coverFile, submitting,
                  createError, createPc, createArgs, creates >>

\* handleCoverChange (lines 36-41)
handleCoverChange(file) ==
  /\ open
  /\ coverFile' = file
  /\ UNCHANGED << viewerVars, projects, configured, open, name, submitting,
                  createError, createPc, createArgs, creates >>

\* handleCreate up to its first await (lines 43-77): it returns with an
\* error, or rejects the cover and ends in catch and finally, or starts to
\* read the cover, or calls addDoc
CreateStart ==
  /\ open /\ ~submitting /\ createPc = "idle"
  /\ creates < MaxCreates
  /\ creates' = creates + 1
  /\ createArgs' = [name |-> name, coverFile |-> coverFile]
  /\ IF ~configured
     THEN /\ createError' = NotConfigured
          /\ UNCHANGED << submitting, createPc >>
     ELSE IF Trim(name) = << >>
     THEN /\ createError' = NoName
          /\ UNCHANGED << submitting, createPc >>
     ELSE IF coverFile.present /\ ExceedsCap(coverFile)
     THEN /\ createError' = TooLarge
          /\ UNCHANGED << submitting, createPc >>
     ELSE /\ createError' = NoError
          /\ submitting' = TRUE
          /\ createPc' = IF coverFile.present THEN "reading" ELSE "adding"
  /\ UNCHANGED << viewerVars, projects, configured, open, name, coverFile >>

\* the FileReader settles (lines 61-66, 84-89): addDoc is called with the data
\* URL, or the error is shown
ReadSettle(ok) ==
  /\ createPc = "reading"
  /\ IF ok
     THEN /\ createPc' = "adding"
          /\ UNCHANGED << submitting, createError >>
     ELSE /\ createPc' = "idle"
          /\ submitting' = FALSE
          /\ createError' = ReadFailed
  /\ UNCHANGED << viewerVars, projects, configured, open, name, coverFile, createArgs,
                  creates >>

\* addDoc settles (lines 69-89): the record is in the collection and the
\* dialog is reset and closed, or the error is shown
AddSettle(ok) ==
  /\ createPc = "adding"
  /\ createPc' = "idle"
  /\ submitting' = FALSE
  /\ IF ok
     THEN /\ projects' = Append(projects, [name |-> Trim(createArgs.name),
                                           coverUrl |-> createArgs.coverFile])
          /\ name' = << >>
          /\ coverFile' = NoFile
          /\ open' = FALSE
          /\ UNCHANGED createError
     ELSE /\ createError' = CreateFailed
          /\ UNCHANGED << projects, name, coverFile, open >>
  /\ UNCHANGED << viewerVars, configured, createArgs, creates >>

\* ---------------------------------------------- ProjectViewer: mount effect
\* no handler of the page is in flight
Quiescent ==
  /\ putPc = "idle"
  /\ \A g \in Gets : getPc[g] = "idle"
  /\ \A p \in Dels : delPc[p] = "idle"
  /\ viewLoadPc = "idle"
  /\ edLoads = {}
  /\ persists = << >>

\* the page is reloaded while nothing is in flight: every component state is
\* the initial one again and ProjectViewer's mount effect runs load() up to
\* its await (lines 27-34)
ViewerReload ==
  /\ Quiescent
  /\ reloads < MaxReloads
  /\ reloads' = reloads + 1
  /\ viewLoadPc' = "listing"
  /\ pdfs' = << >>
  /\ selectedPdfId' = NoId
  /\ selectedPdfUrl' = NoUrl
  /\ error' = NoError
  /\ loading' = TRUE
  /\ edPdfId' = NoId
  /\ highlights' = << >>
  /\ isLoading' = FALSE
  /\ edError' = NoError
  /\ UNCHANGED << CHUNK_SIZE, otherVars, storeVars, putVars, getVars, delVars, obsVars,
                  annotationData, edLoads, persists, edits, persistLog, loadLog, aiVars >>

RECURSIVE RowsFrom(_)
\* the pdf records by descending createdAt (line 33), as PdfItems (35-38)
RowsFrom(d) ==
  IF d = 0 THEN << >>
  ELSE (IF pdfDocs[d].present
        THEN << [id |-> d, numChunks |-> pdfDocs[d].numChunks] >> ELSE << >>)
         \o RowsFrom(d - 1)

\* getDocs of load() settles: the list is shown and its first entry selected,
\* selectPdf running up to its await (lines 34-52)
ViewerLoadSettle(g, ok) ==
  /\ viewLoadPc = "listing"
  /\ viewLoadPc' = "idle"
  /\ loading' = FALSE
  /\ IF ~ok
     THEN /\ error' = "Failed to load PDFs"
          /\ UNCHANGED << pdfs, selectedPdfId, selectedPdfUrl, getVars >>
     ELSE LET rows == RowsFrom(LastDocId) IN
          /\ pdfs' = rows
          /\ IF Len(rows) > 0
             THEN /\ getPc[g] = "idle"
                  /\ getPc' = [getPc EXCEPT ![g] = "listing"]
                  /\ getItem' = [getItem EXCEPT ![g] = rows[1]]
                  /\ selectedPdfId' = rows[1].id
                  /\ error' = NoError
                  /\ UNCHANGED selectedPdfUrl
             ELSE /\ selectedPdfId' = NoId
                  /\ selectedPdfUrl' = NoUrl
                  /\ UNCHANGED << error, getVars >>
  /\ UNCHANGED << CHUNK_SIZE, otherVars, storeVars, putVars, delVars, obsVars, annotationData,
                  reloads, edPdfId, highlights, isLoading, edError, edLoads, persists,
                  edits, persistLog, loadLog, aiVars >>

\* ------------------------------------------------------------------- Next
Outcomes == { "ok", "fail", "notFound" }

\* selectPdf from the sidebar
SelectSteps ==
  \/ \E g \in OneGet, k \in DocIds : SelectStart(g, k)
  \/ \E g \in OneGet, ok \in BOOLEAN : SelectSettle(g, ok)

\* handleAddPdf of one of `files`; with anyOrder the store keeps the chunks
\* in any order, otherwise in the order they were written
PutSteps(files, anyOrder) ==
  \/ \E file \in files, isPdf \in BOOLEAN : PutStart(file, isPdf)
  \/ PutRead
  \/ \E ok \in BOOLEAN : PutAddDocSettle(ok)
  \/ \E i \in putInflight, ok \in BOOLEAN :
       \E pos \in (IF anyOrder THEN 1..Cardinality(putWritten) ELSE {}) \cup
                  {Cardinality(putWritten) + 1} :
         PutChunkSettle(i, ok, pos)
  \/ \E ok \in BOOLEAN : PutSelectSettle(ok)

\* handleDeleteSelectedPdf in the slots `dels`
DeleteSteps(dels) ==
  \/ \E p \in dels : DeleteStart(p)
  \/ \E p \in dels, ok \in BOOLEAN : DeleteListSettle(p, ok)
  \/ \E p \in dels, outcome \in Outcomes : \E t \in delPending[p] :
       DeleteOneSettle(p, t, outcome)
  \/ \E p \in dels, outcome \in Outcomes : DeleteMetaSettle(p, outcome)

\* Spec: every handler, one invocation of each at a time, every chunk size.
\* no call of askExpert or suggestNextFocus has been made, and the build has
\* no key: a key reaches the calls as a parameter only
InitOther == InitAsk /\ InitFocus /\ envKey = FALSE /\ InitCreate({TRUE})

Init == InitWith(1..MaxChunkSize) /\ InitOther

Next ==
  \/ SelectSteps
  \/ PutSteps(SampleFiles, FALSE)
  \/ PersistHighlights
  \/ DeleteSteps(OneDel)

Spec == Init /\ [][Next]_vars

\* SpecCodec: upload and read of every file at every chunk size, over a store
\* that keeps a collection in any order.
NextCodec ==
  \/ SelectSteps
  \/ PutSteps(Files, TRUE)

SpecCodec == Init /\ [][NextCodec]_vars

\* SpecOverlap: "Delete PDF" clicked a second time while the first delete is
\* still running, at the largest chunk size.
InitOverlap == InitWith({MaxChunkSize}) /\ InitOther

NextOverlap ==
  \/ PutSteps(SampleFiles, FALSE)
  \/ PersistHighlights
  \/ DeleteSteps(Dels)

SpecOverlap == InitOverlap /\ [][NextOverlap]_vars

\* SpecAnnot: one document is uploaded and shown in PdfEditor, its annotation
\* set is edited, and the page is reloaded; nothing else runs while React
\* has a render pending.
AnnotFiles == { << 0 >> }

EditorSteps ==
  \/ EditorRender
  \/ \E l \in edLoads, ok \in BOOLEAN : LoadSettle(l, ok)
  \/ \E x \in Randoms : AddHighlightWithMeta(x)
  \/ \E j \in 1..Len(highlights) : UpdateHighlight(highlights[j].id)
  \/ \E j \in 1..Len(highlights) : RemoveHighlight(highlights[j].id)
  \/ \E j \in 1..Len(highlights), draft \in ReplyDrafts, x \in Randoms :
       Reply(highlights[j].id, draft, x)
  \/ \E i \in 1..Len(persists), ok \in BOOLEAN : PersistSettle(i, ok)

ViewerSteps ==
  \/ ViewerReload
  \/ \E g \in OneGet, ok \in BOOLEAN : ViewerLoadSettle(g, ok)

NextAnnot ==
  \/ Reconciled /\ PutSteps(AnnotFiles, FALSE)
  \/ Reconciled /\ \E g \in OneGet, ok \in BOOLEAN : SelectSettle(g, ok)
  \/ Reconciled /\ ViewerSteps
  \/ EditorSteps

SpecAnnot == InitOverlap /\ [][NextAnnot]_vars

\* the parameters tried where the texts do not matter
SuggestInputs == { SuggestInput(k, Text(1), Text(1)) : k \in BOOLEAN }

\* SpecSuggest: two suggestions are asked for, the second while the first may
\* still be running, with every outcome of the two provider calls.
NextSuggest ==
  \/ \E c \in Calls, input \in SuggestInputs : SuggestStart(c, input)
  \/ \E c \in Calls : PrimarySettle(c, TRUE, Bare)
  \/ \E c \in Calls, resp \in PrimaryResponses : PrimarySettle(c, FALSE, resp)
  \/ \E c \in Calls : FallbackSettle(c, TRUE, Bare)
  \/ \E c \in Calls, resp \in ChatResponses : FallbackSettle(c, FALSE, resp)

SpecSuggest == InitOverlap /\ [][NextSuggest]_vars

\* SpecInputs: one suggestComment with texts of every length up to MaxText and
\* with provider texts that lack some or all of the three fields.
AllSuggestInputs ==
  { SuggestInput(k, Text(n), Text(m)) : k \in BOOLEAN, n \in 0..MaxText, m \in 0..MaxText }
JsonTexts ==
  ProviderTexts \cup { << "{", "s", "}" >>, << "{", "c", "}" >>, << "{", "}" >>,
                       << "x", "}", "{", "s", "c", "}", "{" >> }

NextInputs ==
  \/ \E input \in AllSuggestInputs : SuggestStart("s1", input)
  \/ PrimarySettle("s1", TRUE, Bare)
  \/ \E t \in JsonTexts : PrimarySettle("s1", FALSE, Joined(t))
  \/ FallbackSettle("s1", TRUE, Bare)
  \/ \E t \in JsonTexts : FallbackSettle("s1", FALSE, Legacy(t))

SpecInputs == InitOverlap /\ [][NextInputs]_vars

\* SpecFocus: one suggestNextFocus with every provider text in every shape.
NextFocus ==
  \/ \E apiKey \in BOOLEAN, n \in 0..MaxText : FocusStart(FocusInput(apiKey, Text(n)))
  \/ FocusSettle(TRUE, Bare)
  \/ \E resp \in FocusResponses : FocusSettle(FALSE, resp)

SpecFocus == InitOverlap /\ [][NextFocus]_vars

\* SpecExpert: one askExpert with every question of MaxQuestion tokens at most
\* and a short history, or with a plain question and a history of up to
\* MaxHistory turns; every outcome of the web lookup and of the provider calls.
ShortHistory == Alternating(1, "user", "assistant")
PlainQuestion == << "q" >>
SearchQuestion == << "@search", " ", "q" >>

NextExpert ==
  \/ \E apiKey \in BOOLEAN, q \in Questions :
       AskStart(AskInput(apiKey, Text(MaxText), q, ShortHistory))
  \/ \E h \in Histories : AskStart(AskInput(TRUE, Text(1), PlainQuestion, h))
  \/ \E outcome \in LookupOutcomes : AskLookupSettle(outcome)
  \/ AskPrimarySettle(TRUE, Bare)
  \/ \E resp \in { Joined(Prose), Bare } : AskPrimarySettle(FALSE, resp)
  \/ AskFallbackSettle(TRUE, Bare)
  \/ \E resp \in { Legacy(Prose), [Bare EXCEPT !.choice = Null] } :
       AskFallbackSettle(FALSE, resp)

SpecExpert == InitOverlap /\ [][NextExpert]_vars

\* SpecCreate: projects are created with every name and every cover, with and
\* without a configured store.
InitCreateCard ==
  InitWith({MaxChunkSize}) /\ InitAsk /\ InitFocus /\ envKey = FALSE /\ InitCreate(BOOLEAN)

NextCreate ==
  \/ OpenDialog
  \/ CancelDialog
  \/ \E n \in Names : NameChange(n)
  \/ \E file \in CoverFiles \cup { NoFile } : handleCoverChange(file)
  \/ CreateStart
  \/ \E ok \in BOOLEAN : ReadSettle(ok)
  \/ \E ok \in BOOLEAN : AddSettle(ok)

SpecCreate == InitCreateCard /\ [][NextCreate]_vars

\* SpecExtract: one askExpert whose primary call resolves with a response that
\* holds texts, empty strings or nothing in each of the places the extractor
\* reads; the texts differ, so that the answer tells which one was taken.
ContentNode(text, content, value) == [text |-> text, content |-> content, value |-> value]
ContentNodes ==
  { ContentNode(t, c, v) :
      t \in { Undefined, Str(<< >>), Str(<< "t" >>), Wrapper(<< >>), Wrapper(<< "w" >>) },
      c \in { Undefined, Str(<< >>), Str(<< "c" >>) },
      v \in { Undefined, Str(<< >>), Str(<< "v" >>) } }
EmptyNode == ContentNode(Str(<< >>), Undefined, Undefined)
LastNode == ContentNode(Undefined, Undefined, Str(<< "z" >>))
Array(items) == [kind |-> "array", items |-> items]
OutputArrays ==
  { NoArray, Array(<< >>), Array(<< << EmptyNode >>, << LastNode >> >>) }
    \cup { Array(<< << n >> >>) : n \in ContentNodes }
    \cup { Array(<< << n, LastNode >> >>) : n \in ContentNodes }
ExtractResponses ==
  { [output_text |-> j, output |-> o, outputs |-> oo, choice |-> ch] :
      j \in { Undefined, Str(<< >>), Str(<< "j" >>) },
      o \in OutputArrays,
      oo \in { NoArray, Array(<< << LastNode >> >>) },
      ch \in { Undefined, Str(<< >>), Str(<< "h" >>) } }

NextExtract ==
  \/ AskStart(AskInput(TRUE, Text(1), PlainQuestion, << >>))
  \/ AskPrimarySettle(TRUE, Bare)
  \/ \E resp \in ExtractResponses : AskPrimarySettle(FALSE, resp)
  \/ AskFallbackSettle(TRUE, Bare)
  \/ AskFallbackSettle(FALSE, Legacy(Prose))

SpecExtract == InitOverlap /\ [][NextExtract]_vars

\* SpecAssist: one call each of suggestComment, askExpert and suggestNextFocus,
\* with and without a key as a parameter, in a build with and without a key.
AssistTexts == { ValidJson, Prose }

NextAssist ==
  \/ \E input \in SuggestInputs : SuggestStart("s1", input)
  \/ PrimarySettle("s1", TRUE, Bare)
  \/ \E t \in AssistTexts : PrimarySettle("s1", FALSE, Joined(t))
  \/ FallbackSettle("s1", TRUE, Bare)
  \/ \E t \in AssistTexts : FallbackSettle("s1", FALSE, Legacy(t))
  \/ \E apiKey \in BOOLEAN, q \in { PlainQuestion, SearchQuestion } :
       AskStart(AskInput(apiKey, Text(1), q, << >>))
  \/ \E outcome \in { LookupOutcome("reject", 0), LookupOutcome("data", 2) } :
       AskLookupSettle(outcome)
  \/ AskPrimarySettle(TRUE, Bare)
  \/ \E resp \in { Joined(Prose), Bare } : AskPrimarySettle(FALSE, resp)
  \/ AskFallbackSettle(TRUE, Bare)
  \/ AskFallbackSettle(FALSE, Legacy(Prose))
  \/ \E apiKey \in BOOLEAN : FocusStart(FocusInput(apiKey, Text(1)))
  \/ FocusSettle(TRUE, Bare)
  \/ \E t \in { << "{", "pNum", "gAll", "}" >>, Prose } : FocusSettle(FALSE, Joined(t))

InitAssist ==
  InitWith({MaxChunkSize}) /\ InitAsk /\ InitFocus /\ envKey \in BOOLEAN /\ InitCreate({TRUE})

SpecAssist == InitAssist /\ [][NextAssist]_vars

\* SpecStored: the page is opened on a project that already holds documents,
\* each with or without an annotation record; the sidebar selects among them
\* and the annotation set of the document shown is edited.
\* the bytes of the document with id d
StoredFile(d) == << IF d % 2 = 1 THEN 0 ELSE 255 >>

\* a highlight of the document with id d that carries no meta: the field is
\* optional in RichHighlight (line 497) and absent from StoredHighlights
LegacyHighlight(d) ==
  [id |-> << ToString(d) >>, position |-> "p0", content |-> "text",
   comment |-> "c", meta |-> NoMeta]

\* the annotation records a document may have when the page is opened
StoredRecords(d) ==
  { NoField, [present |-> TRUE, highlights |-> << LegacyHighlight(d) >>] }

\* the chunk records handleAddPdf has written for a file
StoredChunks(file) ==
  [j \in 1..NumChunksOf(Base64Of(file)) |->
     [id |-> j - 1, index |-> j - 1, data |-> ChunkOf(Base64Of(file), j - 1)]]

\* ProjectViewer has mounted and its load() awaits the list of documents
InitStored ==
  /\ CHUNK_SIZE = MaxChunkSize
  /\ pdfDocs = [d \in DocIds |->
                  [present |-> TRUE, numChunks |-> NumChunksOf(Base64Of(StoredFile(d))),
                   size |-> Len(StoredFile(d))]]
  /\ chunkDocs = [d \in DocIds |-> StoredChunks(StoredFile(d))]
  /\ annotationData \in { f \in [DocIds -> UNION { StoredRecords(d) : d \in DocIds }] :
                            \A d \in DocIds : f[d] \in StoredRecords(d) }
  /\ annotationDocs = [d \in DocIds |-> annotationData[d].present]
  /\ nextDocId = LastDocId + 1
  /\ pdfs = << >>
  /\ selectedPdfId = NoId
  /\ selectedPdfUrl = NoUrl
  /\ error = NoError
  /\ loading = TRUE
  /\ putPc = "idle"
  /\ putFile = << >>
  /\ putDocId = NoId
  /\ putInflight = {}
  /\ putWritten = {}
  /\ putLog = << >>
  /\ putResult = "none"
  /\ getPc = [g \in Gets |-> "idle"]
  /\ getItem = [g \in Gets |-> NoItem]
  /\ delPc = [p \in Dels |-> "idle"]
  /\ delDocId = [p \in Dels |-> NoId]
  /\ delPending = [p \in Dels |-> {}]
  /\ delFaults = [p \in Dels |-> {}]
  /\ delResult = [p \in Dels |-> "none"]
  /\ uploaded = [d \in DocIds |-> StoredFile(d)]
  /\ putComplete = DocIds
  /\ delBegun = {}
  /\ viewLoadPc = "listing"
  /\ reloads = 0
  /\ edPdfId = NoId
  /\ highlights = << >>
  /\ isLoading = FALSE
  /\ edError = NoError
  /\ edLoads = {}
  /\ persists = << >>
  /\ edits = 0
  /\ persistLog = << >>
  /\ loadLog = NoLoad
  /\ InitSuggest
  /\ InitOther

NextStored ==
  \/ Reconciled /\ \E g \in OneGet, ok \in BOOLEAN : ViewerLoadSettle(g, ok)
  \/ Reconciled /\ SelectSteps
  \/ EditorSteps

SpecStored == InitStored /\ [][NextStored]_vars

\* SpecCards: the page is opened on such a project and the annotation set of
\* the document it shows first is edited; the sidebar is not used.  A drag
\* or a Delete may reach its updater after the highlight has left the set.
\* the ids a highlight can have
CardIds == { RandomId(x) : x \in Randoms } \cup { << ToString(d) >> : d \in DocIds }

\* the ids of this kind that no highlight of the set has
StaleIds == { id \in CardIds : \A j \in 1..Len(highlights) : highlights[j].id # id }

NextCards ==
  \/ Reconciled /\ \E g \in OneGet, ok \in BOOLEAN : ViewerLoadSettle(g, ok)
  \/ Reconciled /\ \E g \in OneGet, ok \in BOOLEAN : SelectSettle(g, ok)
  \/ EditorSteps
  \/ \E id \in StaleIds : UpdateHighlight(id)
  \/ \E id \in StaleIds : RemoveHighlight(id)

SpecCards == InitStored /\ [][NextCards]_vars

\* SpecEarly: every document of such a project has an annotation record, and
\* the comments are added while the editor still loads the record: PdfEditor
\* shows "Loading annotations" and the highlighter is usable all the same.
InitEarly == InitStored /\ \A d \in DocIds : annotationData[d].present

\* load() of the editor has not settled
Loading == \E l \in edLoads : ~l.cancelled

NextEarly ==
  \/ Reconciled /\ \E g \in OneGet, ok \in BOOLEAN : ViewerLoadSettle(g, ok)
  \/ Reconciled /\ \E g \in OneGet, ok \in BOOLEAN : SelectSettle(g, ok)
  \/ EditorRender
  \/ \E l \in edLoads, ok \in BOOLEAN : LoadSettle(l, ok)
  \/ Loading /\ \E x \in Randoms : AddHighlightWithMeta(x)
  \/ \E i \in 1..Len(persists), ok \in BOOLEAN : PersistSettle(i, ok)

SpecEarly == InitEarly /\ [][NextEarly]_vars

\* SpecSwitch: the sidebar switches between the documents of such a project
\* while comments are added in the editor; the store serves every request.
OneRandom == { [digits |-> << "5" >>, exp |-> << >>] }

NextSwitch ==
  \/ Reconciled /\ \E g \in OneGet : ViewerLoadSettle(g, TRUE)
  \/ Reconciled /\ \E g \in OneGet, k \in DocIds : SelectStart(g, k)
  \/ Reconciled /\ \E g \in OneGet : SelectSettle(g, TRUE)
  \/ EditorRender
  \/ \E l \in edLoads : LoadSettle(l, TRUE)
  \/ \E x \in OneRandom : AddHighlightWithMeta(x)
  \/ \E i \in 1..Len(persists) : PersistSettle(i, TRUE)

SpecSwitch == InitEarly /\ [][NextSwitch]_vars

\* SpecRace: the sidebar is clicked again while the selectPdf of the click
\* before is still waiting for its chunks.
NextRace ==
  \/ \E g \in Gets, ok \in BOOLEAN : ViewerLoadSettle(g, ok)
  \/ \E g \in Gets, k \in DocIds : SelectStart(g, k)
  \/ \E g \in Gets, ok \in BOOLEAN : SelectSettle(g, ok)
  \/ EditorRender
  \/ \E l \in edLoads, ok \in BOOLEAN : LoadSettle(l, ok)

SpecRace == InitStored /\ [][NextRace]_vars

\* SpecMount: the page is reloaded and a file is added while load() of the
\* mount effect still waits for the list of documents: the "Add PDF" button is
\* not disabled meanwhile, and the list may already hold the new pdf record.
NextMount ==
  \/ ViewerReload
  \/ \E g \in OneGet, ok \in BOOLEAN : ViewerLoadSettle(g, ok)
  \/ \E g \in OneGet, ok \in BOOLEAN : SelectSettle(g, ok)
  \/ PutSteps(SampleFiles, FALSE)

SpecMount == InitOverlap /\ [][NextMount]_vars

\* ================================================================= claims
\* the indices of the chunks stored for d
IndexSet(d) == { chunkDocs[d][j].index : j \in 1..Len(chunkDocs[d]) }

\* the store keeps the chunks of d in another order than ascending index
OutOfOrder(d) ==
  \E j \in 1..(Len(chunkDocs[d]) - 1) : chunkDocs[d][j].index > chunkDocs[d][j + 1].index

\* the payloads of d by ascending index, whatever the order they are stored in
PayloadsAscending(d) ==
  LET idx == IndexSet(d)
      rank(i) == Cardinality({ x \in idx : x < i }) + 1
      at(r) == CHOOSE j \in 1..Len(chunkDocs[d]) : rank(chunkDocs[d][j].index) = r
  IN [r \in 1..Len(chunkDocs[d]) |-> chunkDocs[d][at(r)].data]

\* this step is the end of a selectPdf(item) with item.id = d
SelectEndsFor(d) ==
  \/ \E g \in Gets : getPc[g] = "listing" /\ getItem[g].id = d /\ getPc'[g] = "idle"
  \/ putPc = "select" /\ putDocId = d /\ putPc' = "idle"

\* the chunk count the finishing selectPdf(item) was given
SelectedNumChunks(d) ==
  IF putPc = "select" /\ putDocId = d /\ putPc' = "idle"
  THEN NumChunksOf(Base64Of(putFile))
  ELSE getItem[CHOOSE g \in Gets :
                 getPc[g] = "listing" /\ getItem[g].id = d /\ getPc'[g] = "idle"].numChunks

\* this step's getDocs was rejected: the error is reported, the viewer keeps
\* what it had
LoadRejected == error' = "Failed to load PDF" /\ selectedPdfUrl' = selectedPdfUrl

\* the upload of d has written its last chunk and no delete of d was started
Intact(d) == d \in putComplete /\ d \notin delBegun

\* C1 (as amended): a selectPdf of a document whose upload of a non-empty file
\* B is complete hands exactly B to the viewer, unless its listing is rejected;
\* for the empty file no chunk is stored and the viewer is handed nothing.
C1_RoundTripNonEmpty ==
  [][\A d \in DocIds :
       (SelectEndsFor(d) /\ Intact(d) /\ ~LoadRejected) =>
         IF uploaded[d] # << >>
         THEN selectedPdfUrl' = << uploaded[d] >>
         ELSE selectedPdfUrl' = NoUrl /\ chunkDocs[d] = << >>]_vars

\* C1 (as claimed): the round trip yields exactly B for every B, the empty
\* sequence included.
C1_RoundTripEveryFile ==
  [][\A d \in DocIds :
       (SelectEndsFor(d) /\ Intact(d) /\ ~LoadRejected) =>
         selectedPdfUrl' = << uploaded[d] >>]_vars

C1_Witness ==
  /\ putResult = "ok"
  /\ Len(uploaded[1]) = MaxBytes
  /\ Len(chunkDocs[1]) >= 2
  /\ selectedPdfUrl = << uploaded[1] >>

\* C2: a complete upload has written ceil(L/k) chunks, all of k characters
\* but the last, which has 1..k, and numChunks is the number written.
C2_ChunkCount ==
  \A d \in DocIds : Intact(d) =>
    LET L == Len(btoa(uploaded[d]))
        n == Len(chunkDocs[d])
    IN /\ n * CHUNK_SIZE >= L
       /\ (n - 1) * CHUNK_SIZE < L
       /\ IndexSet(d) = 0..(n - 1)
       /\ (putDocId = d => Cardinality(putWritten) = n)
       /\ pdfDocs[d].numChunks = n
       /\ \A j \in 1..n :
            LET r == chunkDocs[d][j] IN
              IF r.index < n - 1 THEN Len(r.data) = CHUNK_SIZE
              ELSE Len(r.data) >= 1 /\ Len(r.data) <= CHUNK_SIZE

C2_Witness ==
  /\ 1 \in putComplete
  /\ CHUNK_SIZE = 3
  /\ Len(chunkDocs[1]) = 2
  /\ \E j \in 1..2 : Len(chunkDocs[1][j].data) = 1

\* C3 (as claimed): a selectPdf that lists chunks with a gap with respect to
\* the chunk count, or whose pdf record is absent, fails with an error and
\* hands no bytes to the viewer.
C3_GapOrNoMetadataFails ==
  [][\A d \in DocIds :
       (SelectEndsFor(d) /\ ~LoadRejected
          /\ (IndexSet(d) # 0..(SelectedNumChunks(d) - 1) \/ ~pdfDocs[d].present)) =>
         /\ error' \in { "Failed to load PDF", "InvalidCharacterError" }
         /\ selectedPdfUrl' \in { NoUrl, selectedPdfUrl }]_vars

Fatal == { Listing[1], Meta[1] }

\* handleAddPdf is between its addDoc and its last chunk write for d
Uploading(d) == putPc = "chunks" /\ putDocId = d

\* a handleDeleteSelectedPdf of d is between its first and its last store call
Deleting(d) == \E p \in Dels : delPc[p] # "idle" /\ delDocId[p] = d

\* C5: within one upload the pdf record is written before any chunk, and the
\* chunks one at a time in ascending index order: chunk i is in flight only
\* when the writes of 0..i-1 have completed.
C5_MetadataThenChunksInOrder ==
  /\ Cardinality(putInflight) <= 1
  /\ \A i \in putInflight : putWritten = 0..(i - 1)
  /\ (putInflight # {} \/ putWritten # {}) =>
       /\ Len(putLog) >= 1
       /\ putLog[1] = [op |-> "addDoc", index |-> 0, ok |-> TRUE]
       /\ pdfDocs[putDocId].present \/ putDocId \in delBegun
  /\ putPc \in { "read", "addDoc" } => putLog = << >> /\ chunkDocs[nextDocId] = << >>
  /\ \A j \in 1..Len(putLog) :
       /\ putLog[j].op = (IF j = 1 THEN "addDoc" ELSE "setDoc")
       /\ j >= 2 => putLog[j].index = j - 2
       /\ j < Len(putLog) => putLog[j].ok

C5_Witness ==
  /\ putPc = "chunks"
  /\ putInflight = {2}
  /\ putWritten = {0, 1}
  /\ Len(putLog) = 3

\* C6: when the write of chunk j fails the upload reports an error, ends
\* without a further write, and leaves the store as it is: the pdf record and
\* the chunks 0..j-1 stay.
C6_PartialUploadFailure ==
  /\ [][(putPc = "chunks" /\ putPc' = "idle") =>
          /\ error' # NoError
          /\ putResult' = "error"
          /\ storeVars' = storeVars]_vars
  /\ [](putResult = "error" /\ Len(putLog) >= 2 =>
          LET j == putLog[Len(putLog)].index IN
            /\ putPc = "idle"
            /\ putInflight = {}
            /\ putWritten = 0..(j - 1)
            /\ putDocId \notin delBegun =>
                 pdfDocs[putDocId].present /\ IndexSet(putDocId) = 0..(j - 1))

C6_Witness ==
  /\ putResult = "error"
  /\ error = "Failed to upload PDF"
  /\ Len(putLog) = 3
  /\ ~putLog[3].ok
  /\ pdfDocs[putDocId].present
  /\ IndexSet(putDocId) = {0}

\* C7: the delete of the pdf record is issued only once every chunk delete
\* and the annotations delete have settled, and the record goes last.
C7_MetadataDeletedLast ==
  /\ \A p \in Dels : delPc[p] = "meta" => delPending[p] = {}
  /\ \A p \in Dels : delPending[p] # {} /\ delPc[p] # "idle" =>
       pdfDocs[delDocId[p]].present

C7_Witness ==
  /\ delPc["d1"] = "meta"
  /\ "chunk" \in delFaults["d1"]
  /\ Len(chunkDocs[delDocId["d1"]]) = 1
  /\ pdfDocs[delDocId["d1"]].numChunks = 4

\* C8 (as amended): a failed chunk or annotations delete never ends the
\* delete nor skips the delete of the pdf record; the delete fails overall
\* exactly when the listing of the chunks or the delete of the pdf record fails.
C8_SettleAll ==
  \A p \in Dels :
    /\ delResult[p] = "error" <=> delFaults[p] \cap Fatal # {}
    /\ (delResult[p] # "none" /\ Listing[1] \notin delFaults[p]) => delPending[p] = {}
    /\ delResult[p] = "ok" => delPc[p] = "idle"

\* C8 (as claimed): the delete fails overall only if the delete of the pdf
\* record fails.
C8_FailsOnlyOnMetadataDelete ==
  \A p \in Dels : delResult[p] = "error" => Meta[1] \in delFaults[p]

C8_Witness ==
  /\ delResult["d1"] = "ok"
  /\ { "chunk", "annotations" } \subseteq delFaults["d1"]
  /\ ~pdfDocs[delDocId["d1"]].present

\* C9 (as amended): the pdf record is seen with all its chunks 0..numChunks-1
\* for a document whose upload has written its last chunk and on which no
\* delete was started.
C9_IntactDocumentHasChunks ==
  \A d \in DocIds : Intact(d) =>
    pdfDocs[d].present /\ IndexSet(d) = 0..(pdfDocs[d].numChunks - 1)

\* C9 (as claimed): while an upload or a delete of a document is in progress,
\* a pdf record that exists has all its chunks.
C9_MetadataImpliesChunks ==
  \A d \in DocIds :
    ((Uploading(d) \/ Deleting(d)) /\ pdfDocs[d].present) =>
      0..(pdfDocs[d].numChunks - 1) \subseteq IndexSet(d)

C9_Witness ==
  /\ Intact(1)
  /\ pdfDocs[1].numChunks = 4
  /\ getPc["g1"] = "listing"

\* C10: a delete that runs on a document an earlier delete has already
\* removed reports an error only when a store call of its own fails.
C10_RedeleteNeverFails ==
  [][\A p \in Dels :
       (delPc[p] # "idle" /\ delPc'[p] = "idle" /\ ~pdfDocs[delDocId[p]].present
          /\ \E q \in Dels \ {p} : delResult[q] = "ok" /\ delDocId[q] = delDocId[p]) =>
         /\ delFaults'[p] \cap Fatal = {} => delResult'[p] = "ok" /\ error' = error
         /\ pdfDocs' = pdfDocs]_vars

C10_Witness ==
  /\ delResult["d1"] = "ok"
  /\ delResult["d2"] = "ok"
  /\ delDocId["d1"] = delDocId["d2"]
  /\ delFaults["d2"] = {}

\* the chunks stored for d have the indices 0, 1, .. without a gap
Contiguous(d) == IndexSet(d) = 0..(Len(chunkDocs[d]) - 1)

\* no stored chunk of d is longer than the chunk cap
WithinCap(d) == \A j \in 1..Len(chunkDocs[d]) : Len(chunkDocs[d][j].data) <= CHUNK_SIZE

\* C11 (as amended): the chunks stored for a document on which no delete was
\* started have contiguous indices from 0, whether its upload is running,
\* complete or failed; every stored chunk is at most the chunk cap long.
C11_ContiguousUntilDelete ==
  \A d \in DocIds :
    /\ WithinCap(d)
    /\ d \notin delBegun => Contiguous(d)

\* C11 (as claimed): the chunks stored for a document whose pdf record exists
\* have contiguous indices from 0 and are at most the chunk cap long, deletes
\* and failed deletes included.
C11_ContiguousWheneverMetadata ==
  \A d \in DocIds : pdfDocs[d].present => (Contiguous(d) /\ WithinCap(d))

C11_Witness ==
  /\ putResult = "error"
  /\ 1 \notin delBegun
  /\ Len(chunkDocs[1]) = 2
  /\ pdfDocs[1].numChunks = 4
  /\ \A j \in 1..2 : Len(chunkDocs[1][j].data) = CHUNK_SIZE

\* the persists of d that have settled successfully, in the order they settled
OkPersists(d) == SelectSeq(persistLog, LAMBDA e : e.ok /\ e.doc = d)

\* this step settles the load l, which was not cancelled, successfully
LoadReturns(l) ==
  /\ l \in edLoads
  /\ ~l.cancelled
  /\ Reconciled
  /\ edLoads' = edLoads \ {l}
  /\ loadLog'.ok

\* C12: a load that follows a successful persist of S, with no write since,
\* puts exactly S into the editor: the same highlights in the same order, with
\* the replies of each in the same order.
C12_PersistThenLoad ==
  [][\A l \in edLoads :
       (LoadReturns(l) /\ OkPersists(l.doc) # << >>) =>
         highlights' = OkPersists(l.doc)[Len(OkPersists(l.doc))].next]_vars

C12_Witness ==
  /\ reloads = 1
  /\ loadLog = [doc |-> 1, ok |-> TRUE, found |-> TRUE]
  /\ edLoads = {}
  /\ Len(persistLog) = 3
  /\ Len(highlights) = 1
  /\ Len(highlights[1].meta.replies) = 2
  /\ highlights[1].meta.replies[1].id # highlights[1].meta.replies[2].id

\* this step is a mutation of the annotation set
Mutation == edits' = edits + 1

\* C13: every mutation (add, update geometry, remove, append reply) issues in
\* the same step exactly one persist for the editor's document, carrying the
\* whole set as it is after the mutation; the in-memory set changes otherwise
\* only when a load settles or the editor is unmounted.
C13_WriteThrough ==
  [][/\ Mutation =>
          persists' = Append(persists, [doc |-> edPdfId, seq |-> edits',
                                        next |-> highlights'])
     /\ (~Mutation /\ highlights' # highlights) =>
          (edLoads' # edLoads \/ edPdfId' = NoId)
     /\ ~Mutation => Len(persists') <= Len(persists)]_vars

C13_Witness ==
  /\ Len(persists) = 3
  /\ persists[3].next = highlights
  /\ persists[2].next # highlights
  /\ Len(highlights) = 1
  /\ highlights[1].position = MovedPosition
  /\ Len(highlights[1].meta.replies) = 1

\* the persists of d that have settled, in the order they settled
SettledPersists(d) == SelectSeq(persistLog, LAMBDA e : e.doc = d)

\* no persist of d is in flight
NoPersistInFlight(d) == \A i \in 1..Len(persists) : persists[i].doc # d

\* C14 (as amended): persists of one document are not serialized; the stored
\* set is the argument of the persist whose write succeeded last, whatever
\* the order in which the persists were issued.
C14_LastSuccessfulWriterWins ==
  \A d \in DocIds :
    OkPersists(d) # << >> =>
      /\ annotationDocs[d]
      /\ annotationData[d] =
           [present |-> TRUE, highlights |-> OkPersists(d)[Len(OkPersists(d))].next]

\* C14 (as claimed): once the persists of a document have all completed, the
\* stored set is the argument of the one that completed last.
C14_LastCompletedWins ==
  \A d \in DocIds :
    (NoPersistInFlight(d) /\ Len(SettledPersists(d)) >= 2) =>
      annotationData[d] =
        [present |-> TRUE,
         highlights |-> SettledPersists(d)[Len(SettledPersists(d))].next]

C14_Witness ==
  /\ persists = << >>
  /\ Len(persistLog) = 2
  /\ persistLog[1].ok /\ persistLog[2].ok
  /\ persistLog[1].seq = 2 /\ persistLog[2].seq = 1
  /\ annotationData[1].highlights = persistLog[2].next
  /\ highlights = persistLog[1].next
  /\ annotationData[1].highlights # highlights

\* this step is the rejection of a setDoc of persistHighlights
PersistRejected ==
  /\ Len(persistLog') = Len(persistLog) + 1
  /\ ~persistLog'[Len(persistLog')].ok

\* this step is the rejection of the getDoc of a load that was not cancelled
LoadRejects ==
  \E l \in edLoads :
    ~l.cancelled /\ Reconciled /\ edLoads' = edLoads \ {l} /\ ~loadLog'.ok

\* this step is the rejection of a store call of handleAddPdf
UploadRejected == putPc \in {"addDoc", "chunks"} /\ putResult' = "error"

\* C15 (as claimed): a store call of an upload, a load or a persist that
\* fails sets the error state of the component that issued it.
C15_StoreFailuresSurfaced ==
  [][/\ UploadRejected => error' # NoError
     /\ LoadRejects => edError' # NoError
     /\ PersistRejected => edError' # NoError]_vars

\* no two highlights of the set have the same id
UniqueIds(hs) == \A i, j \in 1..Len(hs) : hs[i].id = hs[j].id => i = j

\* C16 (as claimed): no two highlights of the in-memory set have the same
\* id, nor two of a set that is being persisted or is stored.
C16_UniqueHighlightIds ==
  /\ UniqueIds(highlights)
  /\ \A i \in 1..Len(persists) : UniqueIds(persists[i].next)
  /\ \A d \in DocIds : UniqueIds(annotationData[d].highlights)

\* this step settles the load l, which was not cancelled
LoadSettles(l) ==
  l \in edLoads /\ ~l.cancelled /\ Reconciled /\ edLoads' = edLoads \ {l}

\* C17: a load that finds no annotation record, or a record without a
\* highlights field, leaves the editor with the empty set and no error; the
\* editor's error is set only by a load whose read was rejected.
C17_LoadOfNothingIsEmpty ==
  [][/\ \A l \in edLoads :
          (LoadSettles(l) /\ loadLog'.ok /\ ~loadLog'.found) =>
            (highlights' = << >> /\ edError' = NoError /\ ~isLoading')
     /\ (edError' # NoError /\ edError' # edError) => LoadRejects]_vars

C17_Witness ==
  /\ edPdfId = 1
  /\ loadLog = [doc |-> 1, ok |-> TRUE, found |-> FALSE]
  /\ ~annotationDocs[1]
  /\ edLoads = {}
  /\ highlights = << >>
  /\ edError = NoError
  /\ edits = 0

\* the primary call of c gave no suggestion: it rejected, no text could be
\* extracted from its response, or the text holds no parseable JSON
PrimaryFailed(c) ==
  aiPrimary[c].threw \/ TextOutcome(extractOutputText(aiPrimary[c].resp)) # "suggestion"

\* the fallback call of c gave no suggestion
FallbackFailed(c) ==
  aiSecondary[c].threw \/ TextOutcome(ChatContent(aiSecondary[c].resp)) # "suggestion"

\* c called the primary endpoint and then the fallback endpoint, once each,
\* with its prompt
CalledBoth(c) ==
  aiCalls[c] = << [endpoint |-> "responses", prompt |-> PromptOf(aiInput[c])],
                  [endpoint |-> "chat", prompt |-> PromptOf(aiInput[c])] >>

\* C18 (as claimed): a suggestComment whose primary call gave no suggestion,
\* for whichever reason, has called the fallback endpoint exactly once with
\* the same prompt when it returns.
C18_FallbackOnEveryPrimaryFailure ==
  \A c \in Calls :
    (aiPc[c] = "done" /\ aiCalls[c] # << >> /\ PrimaryFailed(c)) => CalledBoth(c)

\* C19: suggestComment never raises; when its primary call rejects and the
\* fallback returns text with valid JSON it returns the suggestion parsed from
\* that text, and when neither call gives a suggestion it returns null.
C19_FallbackResult ==
  \A c \in Calls :
    /\ aiResult[c].kind \in {"pending", "null", "suggestion"}
    /\ aiPc[c] = "done" <=> aiResult[c].kind # "pending"
    /\ (aiPc[c] = "done" /\ CalledBoth(c) /\ aiPrimary[c].threw /\ ~FallbackFailed(c)) =>
         aiResult[c] = [kind |-> "suggestion", from |-> "fallback",
                        value |-> SuggestionOf(RawJson(ChatContent(aiSecondary[c].resp).s),
                                           Excerpt(aiInput[c]))]
    /\ (aiPc[c] = "done" /\ PrimaryFailed(c) /\ (CalledBoth(c) => FallbackFailed(c))) =>
         aiResult[c] = ReturnsNull

C19_Witness ==
  /\ aiPrimary["s1"].threw
  /\ aiSecondary["s1"] = [threw |-> FALSE, resp |-> Legacy(WrappedJson)]
  /\ aiResult["s1"] = [kind |-> "suggestion", from |-> "fallback",
                       value |-> [text |-> Ok, severity |-> "medium",
                                  category |-> "general"]]
  /\ aiPrimary["s2"].threw
  /\ aiSecondary["s2"].threw
  /\ aiResult["s2"] = ReturnsNull

\* C20 (as claimed): a suggestComment whose signal is aborted while its
\* primary call is pending ends with a cancellation outcome and never calls
\* the fallback endpoint.
C20_CancellationIsTerminal ==
  [][\A c \in Calls :
       (aiAborted[c] /\ aiPc[c] = "primary" /\ aiPc'[c] # "primary") =>
         (aiPc'[c] = "done" /\ aiResult'[c].kind = "cancelled")]_vars

\* neither params.apiKey nor the build gives a key
NoKey(input) == ~input.apiKey /\ ~envKey

\* C21: without a key, neither passed in nor in the build, suggestComment,
\* askExpert and suggestNextFocus are done as soon as they are called, with
\* null as their result and without any request sent: no primary call, no
\* fallback call, no web lookup.
C21_NoKeyNoRequest ==
  /\ \A c \in Calls : (aiPc[c] # "idle" /\ NoKey(aiInput[c])) =>
       (aiPc[c] = "done" /\ aiResult[c] = ReturnsNull /\ aiCalls[c] = << >>)
  /\ (askPc # "idle" /\ NoKey(askInput)) =>
       (askPc = "done" /\ askResult = AnswerNull /\ askCalls = << >>)
  /\ (focusPc # "idle" /\ NoKey(focusInput)) =>
       (focusPc = "done" /\ focusResult = FocusNull /\ focusCalls = << >>)

C21_Witness ==
  /\ ~envKey
  /\ aiPc["s1"] = "done" /\ ~aiInput["s1"].apiKey /\ aiCalls["s1"] = << >>
  /\ askPc = "done" /\ ~askInput.apiKey /\ IsSearch(askInput.question)
  /\ askCalls = << >> /\ askResult = AnswerNull
  /\ focusPc = "done" /\ ~focusInput.apiKey /\ focusCalls = << >>

\* the responses that carry the text t in one of the supported shapes: the
\* joined text field, an output item whose content node holds the string or a
\* {value} wrapper of it, the legacy choice list
ShapesOf(t) == { Joined(t), Nested(Str(t)), Nested(Wrapper(t)), Legacy(t) }

\* C22: when the primary call resolves with the text
\* {"text":"ok","severity":"high","category":"safety"} in any of the supported
\* shapes, suggestComment returns {text: "ok", severity: "high", category:
\* "safety"} and has called the primary endpoint only.
C22_ShapeIndependent ==
  \A c \in Calls :
    (~aiPrimary[c].threw /\ aiPrimary[c].resp \in ShapesOf(ValidJson)) =>
      /\ aiPc[c] = "done"
      /\ aiResult[c] = [kind |-> "suggestion", from |-> "primary",
                        value |-> [text |-> Ok, severity |-> "high",
                                   category |-> "safety"]]
      /\ aiCalls[c] = << [endpoint |-> "responses", prompt |-> PromptOf(aiInput[c])] >>

C22_Witness ==
  /\ aiPrimary["s1"] = [threw |-> FALSE, resp |-> Nested(Wrapper(ValidJson))]
  /\ aiPrimary["s2"] = [threw |-> FALSE, resp |-> Legacy(ValidJson)]
  /\ \A c \in Calls : aiResult[c].kind = "suggestion" /\ Len(aiCalls[c]) = 1

\* the text suggestComment c parsed its result from
ParsedText(c) ==
  IF aiResult[c].from = "primary" THEN extractOutputText(aiPrimary[c].resp).s
  ELSE ChatContent(aiSecondary[c].resp).s

\* the part of t from its first "{" to its last "}"
FirstToLast(t) ==
  LET first == CHOOSE i \in 1..Len(t) : t[i] = "{" /\ \A j \in 1..(i - 1) : t[j] # "{"
      last == CHOOSE i \in 1..Len(t) : t[i] = "}" /\ \A j \in (i + 1)..Len(t) : t[j] # "}"
  IN SubSeq(t, first, last)

\* the member m is in the object text
HasMember(object, m) == \E i \in 1..Len(object) : object[i] = m

\* the suggestion with the fields of the object text, a missing severity
\* being "medium", a missing category "general" and a missing text `text`
WithDefaults(object, text) ==
  [text |-> IF HasMember(object, "t") THEN Ok ELSE text,
   severity |-> IF HasMember(object, "s") THEN "high" ELSE "medium",
   category |-> IF HasMember(object, "c") THEN "safety" ELSE "general"]

\* C23 (as claimed): a suggestion is built from the part of the returned text
\* between its first "{" and its last "}", a missing severity being "medium",
\* a missing category "general", and a missing text the excerpt as the caller
\* supplied it.
C23_DefaultsToOriginalExcerpt ==
  \A c \in Calls :
    aiResult[c].kind = "suggestion" =>
      aiResult[c].value = WithDefaults(FirstToLast(ParsedText(c)), aiInput[c].highlightText)

\* C23 (amended): as above, but a missing text is the truncated excerpt: the
\* first ExcerptLimit characters of the excerpt the caller supplied; and every
\* returned text whose part between the first "{" and the last "}" parses
\* gives a suggestion.
C23_DefaultsToTruncatedExcerpt ==
  \A c \in Calls :
    /\ aiResult[c].kind = "suggestion" =>
         aiResult[c].value =
           WithDefaults(FirstToLast(ParsedText(c)),
                        SubSeq(aiInput[c].highlightText, 1,
                               Min(ExcerptLimit, Len(aiInput[c].highlightText))))
    /\ (aiPc[c] = "done" /\ aiCalls[c] # << >> /\ ~aiPrimary[c].threw
          /\ TextOutcome(extractOutputText(aiPrimary[c].resp)) = "suggestion") =>
         aiResult[c].kind = "suggestion"

C23_Witness ==
  /\ Len(aiInput["s1"].highlightText) > ExcerptLimit
  /\ aiPrimary["s1"] = [threw |-> FALSE, resp |-> Joined(<< "{", "c", "}" >>)]
  /\ aiResult["s1"].kind = "suggestion"
  /\ aiResult["s1"].value = [text |-> Text(ExcerptLimit), severity |-> "medium",
                             category |-> "safety"]

\* the calls of the fallback endpoint among the requests
ChatCalls(calls) == { i \in 1..Len(calls) : calls[i].endpoint = "chat" }

\* the state of a request: Building before it is made, AwaitingPrimary and
\* AwaitingFallback while the provider call is pending, and when it has
\* returned, Failed for null and Success otherwise
StateOf(pc, isNull) ==
  CASE pc = "idle" -> "Building"
    [] pc = "lookup" -> "Building"
    [] pc = "primary" -> "AwaitingPrimary"
    [] pc = "fallback" -> "AwaitingFallback"
    [] pc = "done" -> IF isNull THEN "Failed" ELSE "Success"

\* a request with a key goes from state `from` to state `to`, its requests
\* going from `calls` to `calls2`: the fallback endpoint is called once at
\* most and only on leaving AwaitingPrimary, nothing is sent after Success or
\* Failed, and Failed is entered from AwaitingFallback only
FollowsStateMachine(from, to, calls, calls2) ==
  /\ Cardinality(ChatCalls(calls2)) <= 1
  /\ ChatCalls(calls2) # ChatCalls(calls) =>
       (from = "AwaitingPrimary" /\ to = "AwaitingFallback")
  /\ from \in { "Success", "Failed" } => (to = from /\ calls2 = calls)
  /\ from = "AwaitingPrimary" => to \in { "AwaitingPrimary", "Success", "AwaitingFallback" }
  /\ from = "AwaitingFallback" => to \in { "AwaitingFallback", "Success", "Failed" }
  /\ (to = "Failed" /\ from # "Failed") => from = "AwaitingFallback"

\* C24 (as claimed): every suggestComment and askExpert made with a key goes
\* Building -> AwaitingPrimary -> {Success | AwaitingFallback} -> {Success |
\* Failed}: the fallback endpoint is called once at most and only after the
\* primary call failed, no provider call follows Success or Failed, and Failed
\* is entered from AwaitingFallback only.
C24_RequestStateMachine ==
  [][/\ \A c \in Calls :
          HasKey(aiInput'[c]) =>
            FollowsStateMachine(StateOf(aiPc[c], aiResult[c].kind = "null"),
                                StateOf(aiPc'[c], aiResult'[c].kind = "null"),
                                aiCalls[c], aiCalls'[c])
     /\ HasKey(askInput') =>
          FollowsStateMachine(StateOf(askPc, askResult.kind = "null"),
                              StateOf(askPc', askResult'.kind = "null"),
                              askCalls, askCalls')]_vars

\* the provider call of suggestNextFocus gave no value: it rejected, no text
\* could be extracted, or the text holds no parseable JSON
FocusPrimaryFailed ==
  focusPrimary.threw \/ FocusReturns(focusPrimary.resp) = FocusNull

\* C25 (as claimed): a suggestNextFocus whose primary call failed (it
\* rejected, no text could be extracted, or the text did not parse) has called
\* the secondary endpoint once when it returns.
C25_FocusTriesFallback ==
  (focusPc = "done" /\ focusCalls # << >> /\ FocusPrimaryFailed) =>
    /\ Len(focusCalls) = 2
    /\ focusCalls[2].endpoint = "chat"

\* the object text the provider call of suggestNextFocus returned parses
FocusParsed ==
  LET content == extractOutputText(focusPrimary.resp)
  IN /\ focusPc = "done"
     /\ focusCalls # << >>
     /\ ~focusPrimary.threw
     /\ NonEmptyString(content)
     /\ HasMember(content.s, "{")
     /\ HasMember(content.s, "}")
     /\ ~FocusParseThrows(FirstToLast(content.s))

\* C26: when the parsed object has no pageNumber, or one that is no number,
\* suggestNextFocus returns a value, not null, whose pageNumber is null and
\* whose suggestion has "medium" for a missing severity and "general" for a
\* missing category; it never raises.
C26_PageNumberOptional ==
  /\ focusResult.kind \in { "pending", "null", "focus" }
  /\ (FocusParsed
        /\ ~HasMember(FirstToLast(extractOutputText(focusPrimary.resp).s), "pNum")) =>
       LET object == FirstToLast(extractOutputText(focusPrimary.resp).s)
       IN /\ focusResult.kind = "focus"
          /\ focusResult.value.pageNumber = "null"
          /\ focusResult.value.suggestion.severity =
               (IF HasMember(object, "gAll") THEN "high" ELSE "medium")
          /\ focusResult.value.suggestion.category =
               (IF HasMember(object, "gAll") THEN "safety" ELSE "general")

C26_Witness ==
  /\ focusPrimary = [threw |-> FALSE, resp |-> Nested(Str(<< "{", "pStr", "gText", "}" >>))]
  /\ focusResult = [kind |-> "focus",
                    value |-> [pageNumber |-> "null",
                               suggestion |-> [text |-> Ok, severity |-> "medium",
                                               category |-> "general"]]]

\* the question, white space aside, begins with one of the tags
CarriesTag(question, tags) ==
  \E i \in 1..Len(question) :
    question[i] \in tags /\ \A j \in 1..(i - 1) : question[j] = " "

\* the question without the tag it begins with and the white space around
WithoutTag(question) ==
  LET i == CHOOSE k \in 1..Len(question) :
             question[k] \in Tags /\ \A j \in 1..(k - 1) : question[j] = " "
  IN Trim(SubSeq(question, i + 1, Len(question)))

\* the requests askExpert has sent to the endpoint
SentTo(endpoint) == { i \in 1..Len(askCalls) : askCalls[i].endpoint = endpoint }

\* the search prefix and the think prefix, in whichever case: the prefix that
\* askExpert removes (line 326) and that ExpertBox announces
SearchPrefix == { "@search", "@SEARCH" }
ThinkPrefix == { "@think", "@THINK" }

\* C27 (as claimed): an askExpert with a key looks up the web if and only if
\* its question carries the search prefix; a lookup that fails or finds
\* nothing leaves the call going, its prompt built without web results; the
\* primary call asks for high reasoning effort if and only if the question
\* carries the think prefix, and for minimal effort otherwise; the question in
\* the prompt is the question without its prefix.
C27_QuestionPrefixes ==
  (askPc \notin { "idle", "lookup" } /\ HasKey(askInput)) =>
    LET q == askInput.question
        primary == askCalls[CHOOSE i \in SentTo("responses") : TRUE]
    IN /\ Cardinality(SentTo("responses")) = 1
       /\ SentTo("duckduckgo") # {} <=> CarriesTag(q, SearchPrefix)
       /\ searchWebDuckDuckGo(askLookup) \in { Null, Str(<< >>) } =>
            ~primary.prompt.web.block
       /\ primary.effort = (IF CarriesTag(q, ThinkPrefix) THEN "high" ELSE "minimal")
       /\ CarriesTag(q, Tags) => primary.prompt.question = WithoutTag(q)

\* the last n turns of the history at most, oldest first, each as its label
\* and its content
LabelledTurns(history, n) ==
  LET kept == IF Len(history) <= n THEN Len(history) ELSE n
  IN [i \in 1..kept |->
        << IF history[Len(history) - kept + i].role = "user" THEN "User" ELSE "Assistant",
           history[Len(history) - kept + i].content >>]

\* C28: the prompt of every provider call of askExpert holds the last
\* HistoryTurns (10) turns of the history at most, in their order, one line
\* each with 'User' for a user turn and 'Assistant' otherwise: the last 10
\* exactly when there are more, and no history block when there are none.
C28_HistoryWindow ==
  \A i \in SentTo("responses") \cup SentTo("chat") :
    /\ askCalls[i].prompt.history.block <=> askInput.history # << >>
    /\ askCalls[i].prompt.history.lines = LabelledTurns(askInput.history, HistoryTurns)
    /\ Len(askCalls[i].prompt.history.lines) <= HistoryTurns

C28_Witness ==
  /\ Len(askInput.history) = HistoryTurns + 1
  /\ askInput.history[1].role = "user"
  /\ Cardinality(SentTo("responses")) = 1 /\ Cardinality(SentTo("chat")) = 1
  /\ askCalls[1].prompt.history.lines[1] = << "Assistant", "2" >>
  /\ askCalls[1].prompt.history.lines[HistoryTurns] = << "User", ToString(HistoryTurns + 1) >>
  /\ Len(askCalls[2].prompt.history.lines) = HistoryTurns

\* the first n characters of t, or t when it has fewer
Prefix(t, n) == [i \in 1..(IF Len(t) <= n THEN Len(t) ELSE n) |-> t[i]]

\* C29: the prompt of every provider call of suggestComment holds the first
\* min(length, ContextLimit) characters of the context supplied and the first
\* min(length, ExcerptLimit) characters of the excerpt supplied (160000 and
\* 4000 in the source); whatever the lengths, a call with a key sends its
\* primary request, never raises, and returns the suggestion when the primary
\* call returns text with valid JSON.
C29_SilentTruncation ==
  \A c \in Calls :
    /\ \A i \in 1..Len(aiCalls[c]) :
         /\ aiCalls[c][i].prompt.context = Prefix(aiInput[c].pdfText, ContextLimit)
         /\ aiCalls[c][i].prompt.excerpt = Prefix(aiInput[c].highlightText, ExcerptLimit)
    /\ (aiPc[c] # "idle" /\ aiInput[c].apiKey) => aiCalls[c] # << >>
    /\ aiResult[c].kind \in { "pending", "null", "suggestion" }
    /\ (aiPc[c] = "done" /\ aiInput[c].apiKey /\ ~aiPrimary[c].threw
          /\ aiPrimary[c].resp = Joined(ValidJson)) =>
         aiResult[c].kind = "suggestion"

C29_Witness ==
  /\ aiInput["s1"] = SuggestInput(TRUE, Text(ContextLimit + 1), Text(ExcerptLimit + 1))
  /\ aiCalls["s1"] = << [endpoint |-> "responses",
                         prompt |-> [excerpt |-> Text(ExcerptLimit),
                                     context |-> Text(ContextLimit)]] >>
  /\ aiPrimary["s1"].resp = Joined(ValidJson)
  /\ aiResult["s1"].kind = "suggestion"

\* the cover is larger than the cap
OverCap(file) == file.present /\ file.size > maxBytes

\* C30: a handleCreate with a configured store, a name and a cover larger
\* than the cap (700 * 1024 bytes in the source) ends at once with the error
\* "Image too large" and without a record written or a write pending; with no
\* cover or one within the cap it goes on without an error; the error "Image
\* too large" is set by nothing else, and no record holds a cover over the cap.
C30_PayloadTooLarge ==
  [][/\ (creates' # creates /\ configured /\ Trim(name) # << >>) =>
          IF OverCap(coverFile)
          THEN /\ createError' = TooLarge
               /\ createPc' = "idle" /\ ~submitting'
               /\ projects' = projects
          ELSE /\ createError' = NoError
               /\ createPc' \in { "reading", "adding" }
     /\ (createError' = TooLarge /\ createError # TooLarge) =>
          (creates' # creates /\ OverCap(coverFile))
     /\ \A i \in 1..Len(projects') : ~OverCap(projects'[i].coverUrl)]_vars

C30_Witness ==
  /\ Len(projects) = 1
  /\ projects[1].coverUrl = File(maxBytes)
  /\ creates = 2
  /\ createArgs.coverFile = File(maxBytes + 1)
  /\ createError = TooLarge
  /\ createPc = "idle"

\* the strings of a content node in the order they are tried: text when it is
\* a string, text.value, content, value
NodeStrings(c) ==
  << IF c.text.kind = "string" THEN c.text ELSE Undefined,
     IF c.text.kind = "object" THEN Str(c.text.s) ELSE Undefined,
     c.content, c.value >>

RECURSIVE FirstNonEmpty(_)
\* the first non-empty string of the sequence, or Undefined
FirstNonEmpty(values) ==
  IF values = << >> THEN Undefined
  ELSE IF Head(values).kind = "string" /\ Head(values).s # << >> THEN Head(values)
  ELSE FirstNonEmpty(Tail(values))

RECURSIVE StringsOf(_)
\* the strings of the content nodes in their order
StringsOf(nodes) ==
  IF nodes = << >> THEN << >> ELSE NodeStrings(Head(nodes)) \o StringsOf(Tail(nodes))

\* the text in priority order: output_text, the output items (outputs when
\* output is absent), choices[0].message.content
FirstByPriority(r) ==
  LET items == IF r.output.kind = "array" THEN r.output.items ELSE r.outputs.items
  IN FirstNonEmpty(<< r.output_text >> \o StringsOf(Join(items)) \o << r.choice >>)

\* C31 (as claimed): the text taken from a response is the first non-empty
\* string in the order output_text, then the content nodes of the output items
\* (of outputs when output is absent) with text, text.value, content and value
\* tried in turn within each node, then choices[0].message.content; there is no
\* text when none is a non-empty string, and an empty string never hides a
\* non-empty one that comes later.
C31_FirstNonEmptyText ==
  (askPc = "done" /\ askCalls # << >> /\ ~askPrimary.threw) =>
    askResult = (IF FirstByPriority(askPrimary.resp) = Undefined
                 THEN AnswerNull
                 ELSE [kind |-> "text", text |-> FirstByPriority(askPrimary.resp).s])

\* ---- C32
\* the highlight at j after the step is the one before it but for its meta
SameCard(j) ==
  /\ highlights'[j].id = highlights[j].id
  /\ highlights'[j].position = highlights[j].position
  /\ highlights'[j].content = highlights[j].content
  /\ highlights'[j].comment = highlights[j].comment

\* the severity and category of the highlight at j are kept, or are medium and
\* general when it had no meta
LabelsKept(j) ==
  IF highlights[j].meta = NoMeta
  THEN highlights'[j].meta.severity = "medium" /\ highlights'[j].meta.category = "general"
  ELSE /\ highlights'[j].meta.severity = highlights[j].meta.severity
       /\ highlights'[j].meta.category = highlights[j].meta.category

\* what a click on Reply with a draft does to the highlights with this id
Replied(id, draft, x) ==
  IF Trim(draft) = << >>
  THEN UNCHANGED vars
  ELSE /\ Len(highlights') = Len(highlights)
       /\ \A j \in 1..Len(highlights) :
            IF highlights[j].id # id
            THEN highlights'[j] = highlights[j]
            ELSE /\ SameCard(j)
                 /\ LabelsKept(j)
                 /\ highlights'[j].meta.replies # << >>
                 /\ Head(highlights'[j].meta.replies) =
                      [id |-> RandomId(x), text |-> Trim(draft)]
                 /\ Tail(highlights'[j].meta.replies) = highlights[j].meta.replies
       /\ Len(persists') = Len(persists) + 1

\* C32: a reply is put at the head of the reply list of the highlight with
\* the given id and the replies it had follow in their order; every other
\* highlight, and the position, content, comment, severity and category of
\* the highlight replied to, stay as they were, a highlight without meta
\* getting severity medium and category general; a draft that trims to
\* nothing changes no state and issues no write.
C32_ReplyAtHead ==
  [][\A j \in 1..Len(highlights), draft \in ReplyDrafts, x \in Randoms :
       Reply(highlights[j].id, draft, x) => Replied(highlights[j].id, draft, x)]_vars

\* a highlight that had no meta carries two replies, the newer one first
C32_Witness ==
  \E j \in 1..Len(highlights) :
    /\ highlights[j].meta.severity = "medium"
    /\ Len(highlights[j].meta.replies) = 2
    /\ highlights[j].meta.replies[1].id # highlights[j].meta.replies[2].id
    /\ \E k \in 1..Len(highlights) : highlights[k].meta = NewMeta

\* ---- C33
\* what a drag of the highlights with this id does to the set
Moved(id) ==
  /\ Len(highlights') = Len(highlights)
  /\ \A j \in 1..Len(highlights) :
       IF highlights[j].id # id
       THEN highlights'[j] = highlights[j]
       ELSE /\ highlights'[j].position = MovedPosition
            /\ highlights'[j].content = MovedContent
            /\ highlights'[j].id = highlights[j].id
            /\ highlights'[j].comment = highlights[j].comment
            /\ highlights'[j].meta = highlights[j].meta
  /\ (id \in StaleIds => highlights' = highlights)

\* C33: updateHighlight replaces the position and the content of the
\* highlights whose id is the given one and nothing else: their id, comment
\* and meta, every other highlight, and the number and order of the
\* highlights stay; with no highlight of that id the set is unchanged.
C33_GeometryOnly ==
  [][\A id \in CardIds : UpdateHighlight(id) => Moved(id)]_vars

\* one highlight was moved and another was not, and a drag of a highlight
\* that is gone was written as well
C33_Witness ==
  /\ \E j, k \in 1..Len(highlights) :
       /\ highlights[j].position = MovedPosition
       /\ highlights[k].position # MovedPosition
  /\ \E i \in 1..Len(persists) : i > 1 /\ persists[i].next = persists[i - 1].next

\* ---- C34
\* the positions of the highlights that do not have this id
KeptAt(id) == { j \in 1..Len(highlights) : highlights[j].id # id }

\* the r-th of those positions
KeptIndex(id, r) ==
  CHOOSE j \in KeptAt(id) : Cardinality({ i \in KeptAt(id) : i <= j }) = r

\* what Delete does to the set
Removed(id) ==
  /\ Len(highlights') = Cardinality(KeptAt(id))
  /\ \A r \in 1..Len(highlights') : highlights'[r] = highlights[KeptIndex(id, r)]
  /\ (id \in StaleIds => highlights' = highlights)

\* C34: removeHighlight leaves the highlights whose id is not the given one,
\* each unchanged and in the order they had; with no highlight of that id the
\* set is unchanged, so a second removal of the same id does nothing.
C34_RemoveById ==
  [][\A id \in CardIds : RemoveHighlight(id) => Removed(id)]_vars

\* a removal out of a set of two or more left a highlight behind
C34_Witness ==
  \E i \in 1..Len(persists) :
    /\ i > 1
    /\ Len(persists[i].next) >= 1
    /\ Len(persists[i].next) < Len(persists[i - 1].next)

\* ---- C35
\* C35: addHighlightWithMeta puts one new highlight, with the position,
\* content, comment text and meta it was given, ahead of the highlights
\* there were, which stay as they were and in their order.
C35_AddAtHead ==
  [][\A x \in Randoms :
       AddHighlightWithMeta(x) =>
         /\ Len(highlights') = Len(highlights) + 1
         /\ Head(highlights') = [id |-> RandomId(x), position |-> NewPosition,
                                 content |-> NewContent, comment |-> NewComment,
                                 meta |-> NewMeta]
         /\ Tail(highlights') = highlights]_vars

\* a new highlight stands ahead of the one that was loaded
C35_Witness ==
  /\ Len(highlights) >= 2
  /\ highlights[1].meta = NewMeta
  /\ highlights[Len(highlights)].meta = NoMeta

\* ---- C36
\* every write the editor issued has completed successfully, all of them for
\* the document shown, no load is in flight, and the in-memory set is the one
\* the last mutation produced
AllWritten ==
  /\ Reconciled
  /\ edPdfId # NoId
  /\ edLoads = {}
  /\ persists = << >>
  /\ persistLog # << >>
  /\ \A i \in 1..Len(persistLog) : persistLog[i].ok /\ persistLog[i].doc = edPdfId
  /\ \E i \in 1..Len(persistLog) :
       /\ \A k \in 1..Len(persistLog) : persistLog[k].seq <= persistLog[i].seq
       /\ persistLog[i].next = highlights

\* C36: once every write of the session for the document has completed
\* successfully and no mutation is pending, the stored annotation set is the
\* in-memory set, in whatever order overlapping writes completed.
C36_Converges ==
  AllWritten => annotationData[edPdfId] = [present |-> TRUE, highlights |-> highlights]

\* the highlights of a list
CardsOf(hs) == { hs[j] : j \in 1..Len(hs) }

\* ---- C37
\* the ids of the highlights that were stored for another document than d
ForeignIds(d) == { LegacyHighlight(e).id : e \in DocIds \ {d} }

\* C37: the annotation sets of two documents are never mixed: what is written
\* to the record of a document holds only highlights loaded from that record
\* or added while the document was shown, so no highlight stored for another
\* document, also after a switch with a mutation made before the load of the
\* new document has completed.
C37_NeverMixed ==
  \A d \in DocIds :
    /\ \A h \in CardsOf(annotationData[d].highlights) : h.id \notin ForeignIds(d)
    /\ \A i \in 1..Len(persists) :
         persists[i].doc = d =>
           \A h \in CardsOf(persists[i].next) : h.id \notin ForeignIds(d)

\* ---- C38

\* the load of the document shown and every write have completed successfully
LoadedAndWritten ==
  /\ Reconciled
  /\ edPdfId # NoId
  /\ edLoads = {}
  /\ persists = << >>
  /\ persistLog # << >>
  /\ loadLog.doc = edPdfId /\ loadLog.ok
  /\ \A i \in 1..Len(persistLog) : persistLog[i].ok /\ persistLog[i].doc = edPdfId

\* the highlight stored before, and the highlights the mutations added
Expected ==
  { LegacyHighlight(edPdfId) } \cup { Head(persistLog[i].next) : i \in 1..Len(persistLog) }

\* C38: after a load and the write of a mutation made while it was in flight
\* have both completed, the in-memory set and the stored set both hold every
\* highlight stored before and the highlight the mutation added, for every
\* interleaving.
C38_NothingLost ==
  LoadedAndWritten =>
    /\ Expected \subseteq CardsOf(highlights)
    /\ Expected \subseteq CardsOf(annotationData[edPdfId].highlights)

\* ---- C39
\* every selectPdf has completed, and none has failed since the last click
SelectsDone ==
  /\ viewLoadPc = "idle"
  /\ \A g \in Gets : getPc[g] = "idle"
  /\ error = NoError
  /\ selectedPdfId # NoId
  /\ selectedPdfUrl # NoUrl

\* C39: the document displayed is the one selected: when the selectPdf calls
\* of two clicks overlap and complete in any order, the bytes handed to the
\* viewer once both have completed are those of the document clicked last.
C39_ShowsSelected ==
  SelectsDone => selectedPdfUrl = << uploaded[selectedPdfId] >>

\* ---- C40
\* C40: a selectPdf that runs while the upload of the same document is still
\* writing chunks never hands a truncated document to the viewer: it hands
\* over the uploaded bytes, or nothing, or fails.
C40_NeverTruncated ==
  [][\A d \in DocIds :
       (SelectEndsFor(d) /\ Uploading(d) /\ ~LoadRejected) =>
         selectedPdfUrl' \in { << uploaded[d] >>, NoUrl, selectedPdfUrl }]_vars
====
